---- MODULE Spec2Model ----
(***************************************************************************)
(* A model of the type-inference core of the escalier_hm crate: the type   *)
(* arena, pruning, the occurs check, bind, unify, unify_call and fresh.    *)
(*                                                                         *)
(* Arena indices are positions 1..Len(arena); 0 stands for None.  A type   *)
(* node is a record of one shape for every TypeKind:                       *)
(*   kind       "Variable" | "Constructor" | "Literal" | "Function"        *)
(*              | "Object" | "Rest"                                        *)
(*   name       Constructor.name, or the text of a Literal                 *)
(*   lit        "Number" | "String" | "Boolean" for a Literal, else ""     *)
(*   types      Constructor.types, the FuncParam.t of a Function, the t    *)
(*              of the elements of an Object, <<arg>> of a Rest            *)
(*   keys       the names of the elements of an Object, which are all     *)
(*              TObjElem::Prop                                             *)
(*   opts       FuncParam.optional / TProp.optional, one per types[i]      *)
(*   ret        Function.ret                                               *)
(*   instance   Variable.instance                                          *)
(*   constraint Variable.constraint                                        *)
(***************************************************************************)
EXTENDS Integers, Sequences, FiniteSets, TLC

\* The number of operations of one run.
MaxSteps == 2
\* The depth of the call stack, counted in calls of unify: a run that makes
\* more calls than this is a stack overflow.
MaxCalls == 24

None == 0

Node(k, n, l, ts, ks, os, r, i, c) ==
    [kind |-> k, name |-> n, lit |-> l, types |-> ts, keys |-> ks, opts |-> os,
     ret |-> r, instance |-> i, constraint |-> c]

\* new_var_type(arena, constraint)
MkVar(c) == Node("Variable", "", "", <<>>, <<>>, <<>>, None, None, c)
\* new_constructor(arena, name, types)
MkCon(n, ts) == Node("Constructor", n, "", ts, <<>>, <<>>, None, None, None)
\* new_lit_type(arena, lit)
MkLit(l, v) == Node("Literal", v, l, <<>>, <<>>, <<>>, None, None, None)
\* new_func_type(arena, params, ret, None)
MkFunc(ts, os, r) == Node("Function", "", "", ts, <<>>, os, r, None, None)
\* new_object_type(arena, elems)
MkObj(ks, ts, os) == Node("Object", "", "", ts, ks, os, None, None, None)
\* new_rest_type(arena, arg)
MkRest(t) == Node("Rest", "", "", <<t>>, <<>>, <<>>, None, None, None)

MkTuple(ts) == MkCon("@@tuple", ts)
MkUnion(ts) == MkCon("@@union", ts)
MkIntersection(ts) == MkCon("@@intersection", ts)

IsVar(n) == n.kind = "Variable"
IsCon(n, name) == n.kind = "Constructor" /\ n.name = name

\* Sequence helpers.
Range(s) == {s[i] : i \in 1..Len(s)}
Min(x, y) == IF x < y THEN x ELSE y
Suffix(s, i) == SubSeq(s, i, Len(s))
SeqOf(n, v) == [i \in 1..n |-> v]

----------------------------------------------------------------------------
(* Errors.  An error value is a record: tag names the message, name, x and *)
(* y hold what the message is formatted from (a property name, the two     *)
(* type indices, or the two lengths).                                      *)

Err(tag, name, x, y) == [tag |-> tag, name |-> name, x |-> x, y |-> y]
Ok == Err("ok", "", 0, 0)
IsOk(e) == e.tag = "ok"

\* The errors that are not values of Result: a panic unwinds through every
\* caller, no match on Err(_) sees it.
IsPanic(e) == e.tag \in {"stack overflow", "panic: not yet implemented"}

----------------------------------------------------------------------------
(* prune: follows the instance chain of a variable to its terminal index   *)
(* and overwrites the instance of every variable on the chain with it.     *)

RECURSIVE PruneIdx(_, _)
PruneIdx(arena, t) ==
    IF IsVar(arena[t]) /\ arena[t].instance # None
    THEN PruneIdx(arena, arena[t].instance)
    ELSE t

RECURSIVE PruneArena(_, _)
PruneArena(arena, t) ==
    IF IsVar(arena[t]) /\ arena[t].instance # None
    THEN LET ar == PruneArena(arena, arena[t].instance)
         IN  [ar EXCEPT ![t].instance = PruneIdx(arena, t)]
    ELSE arena

\* The indices a node refers to, in the order occurs_in_type visits them.
Children(n) ==
    IF n.kind = "Function" THEN Append(n.types, n.ret) ELSE n.types

\* occurs_in_type(arena, v, type2): v is the pruned form of type2 or occurs in
\* one of its components.  It prunes as it goes, so it returns the arena too.
RECURSIVE OccursInType(_, _, _)
RECURSIVE OccursInList(_, _, _, _)
OccursInType(arena, v, type2) ==
    LET ar == PruneArena(arena, type2)
        p == PruneIdx(arena, type2)
    IN  IF p = v
        THEN [arena |-> ar, found |-> TRUE]
        ELSE OccursInList(ar, v, Children(ar[p]), 1)

\* occurs_in(arena, t, types): any(), left to right.
OccursInList(arena, v, ts, i) ==
    IF i > Len(ts)
    THEN [arena |-> arena, found |-> FALSE]
    ELSE LET r == OccursInType(arena, v, ts[i])
         IN  IF r.found THEN r ELSE OccursInList(r.arena, v, ts, i + 1)

----------------------------------------------------------------------------
(* Constructors that allocate.  Each returns the arena and the new index.  *)

Alloc(arena, node) == [arena |-> Append(arena, node), idx |-> Len(arena) + 1]

\* new_union_type(arena, types): no member is never, one member is itself.
NewUnionType(arena, ts) ==
    IF Len(ts) = 0 THEN Alloc(arena, MkCon("never", <<>>))
    ELSE IF Len(ts) = 1 THEN [arena |-> arena, idx |-> ts[1]]
    ELSE Alloc(arena, MkUnion(ts))

\* new_intersection_type(arena, types)
NewIntersectionType(arena, ts) ==
    IF Len(ts) = 0 THEN Alloc(arena, MkCon("never", <<>>))
    ELSE IF Len(ts) = 1 THEN [arena |-> arena, idx |-> ts[1]]
    ELSE Alloc(arena, MkIntersection(ts))

----------------------------------------------------------------------------
(* The context: schemes maps the name of a type alias to the index of its  *)
(* body (aliases without type parameters), non_generic is the set of       *)
(* non-generic variables.                                                  *)

\* The names unify does not look up in ctx.schemes.
BuiltinNames ==
    {"string", "boolean", "number", "undefined", "unknown", "Promise", "Array"}

\* name.starts_with("@@"), over the names the model uses.
ReservedNames == {"@@tuple", "@@union", "@@intersection"}

\* The guard of the alias arm of unify.
IsAliasRef(n) ==
    /\ n.kind = "Constructor"
    /\ n.name \notin ReservedNames
    /\ n.name \notin BuiltinNames

\* expand_alias(arena, name, scheme, type_args) for a scheme without type
\* parameters: the scheme's body.
ExpandAlias(arena, ctx, n) == [arena |-> arena, idx |-> ctx.schemes[n.name]]

\* instantiate_func(arena, func, None) for a function without type
\* parameters: nothing is substituted, the parameters and the return are
\* those of func.
InstantiateFunc(func) == func

----------------------------------------------------------------------------
(* simplify_intersection.  Property names are ordered as in KeyOrder.      *)

KeyOrder == <<"a", "b", "c", "x", "y">>

RECURSIVE SortedKeys(_, _)
SortedKeys(ks, i) ==
    IF i > Len(KeyOrder) THEN <<>>
    ELSE IF KeyOrder[i] \in ks
         THEN <<KeyOrder[i]>> \o SortedKeys(ks, i + 1)
         ELSE SortedKeys(ks, i + 1)

\* A set of indices as an ascending sequence (the iteration of a BTreeSet).
RECURSIVE SortedIdx(_)
SortedIdx(S) ==
    IF S = {} THEN <<>>
    ELSE LET m == CHOOSE x \in S : \A y \in S : x <= y
         IN  <<m>> \o SortedIdx(S \ {m})

\* props_map[key]: the types of the properties named key in the objects objs.
PropTypes(arena, objs, key) ==
    UNION {{arena[objs[i]].types[j] :
                j \in {k \in 1..Len(arena[objs[i]].keys) : arena[objs[i]].keys[k] = key}} :
           i \in 1..Len(objs)}

\* The type of one element of elems: the single type of the property, or a
\* new intersection of its types ts.  r is [arena, types], the elements so far.
MergeProp(r, ts) ==
    IF Len(ts) = 1
    THEN [arena |-> r.arena, types |-> Append(r.types, ts[1])]
    ELSE [arena |-> Append(r.arena, MkIntersection(ts)),
          types |-> Append(r.types, Len(r.arena) + 1)]

\* The loop that builds elems: one property per name.
RECURSIVE MergeProps(_, _, _, _)
MergeProps(r, objs, names, i) ==
    IF i > Len(names) THEN r
    ELSE MergeProps(MergeProp(r, SortedIdx(PropTypes(r.arena, objs, names[i]))),
                    objs, names, i + 1)

\* The end of simplify_intersection: the only member of out_types, or a new
\* intersection of them.
OutType(arena, out_types) ==
    IF Len(out_types) = 1
    THEN [arena |-> arena, idx |-> out_types[1]]
    ELSE NewIntersectionType(arena, out_types)

\* out_types when elems is not empty: m is [arena, types], the elements.
PushElems(m, names, not_obj) ==
    OutType(Append(m.arena, MkObj(names, m.types, SeqOf(Len(names), FALSE))),
            Append(not_obj, Len(m.arena) + 1))

\* The elements r.types, built in the order iter of the names, in the order
\* names (elems.sort_by_key).
SortElems(r, iter, names) ==
    [arena |-> r.arena,
     types |-> [i \in 1..Len(names) |->
                   r.types[CHOOSE j \in 1..Len(iter) : iter[j] = names[i]]]]

\* simplify_intersection when props_map.iter() yields the names in the order
\* they have in hash_order: the order of a hash map is not fixed, and it is
\* the order in which the intersections of the elements are inserted.
SimplifyIntersectionIn(arena, in_types, hash_order) ==
    LET objs == SelectSeq(in_types, LAMBDA t : arena[t].kind = "Object")
        not_obj == SelectSeq(in_types, LAMBDA t : arena[t].kind # "Object")
        keys == UNION {Range(arena[objs[i]].keys) : i \in 1..Len(objs)}
        iter == SelectSeq(hash_order, LAMBDA k : k \in keys)
        names == SortedKeys(keys, 1)
    IN  IF Len(names) = 0
        THEN OutType(arena, not_obj)
        ELSE PushElems(SortElems(MergeProps([arena |-> arena, types |-> <<>>],
                                            objs, iter, 1),
                                 iter, names),
                       names, not_obj)

\* simplify_intersection as unify calls it, the hash map yielding the names
\* in the order KeyOrder.  Another order changes only the indices at which
\* the intersections of the elements are inserted (DoSimplifyIntersection
\* runs every order of HashOrders).
SimplifyIntersection(arena, in_types) ==
    SimplifyIntersectionIn(arena, in_types, KeyOrder)

----------------------------------------------------------------------------
(* unify, bind and unify_call.  They work on a record st:                  *)
(*   arena  the arena                                                      *)
(*   err    Ok, or the error the operation returns                         *)
(*   calls  the calls of unify made so far, <<t1, t2>> each, in order      *)
(*   binds  the assignments set_instance made so far, each <<a, b, old>>   *)
(*          with old the instance of a when it was overwritten             *)
(* calls and binds are a history of the run; the code does not keep them.  *)

Fail(st, e) == [st EXCEPT !.err = e]
WithArena(st, ar) == [st EXCEPT !.arena = ar]

\* Allocates node and hands the new state and index to a continuation.
StAlloc(st, node) == [st |-> WithArena(st, Append(st.arena, node)),
                      idx |-> Len(st.arena) + 1]

\* prop.t, whether the property is optional or not.
PropTypeAsWritten(st, obj, i) == [st |-> st, idx |-> obj.types[i]]

\* prop.t, or prop.t | undefined for an optional property.
PropType(st, obj, i) ==
    IF obj.opts[i]
    THEN LET u == StAlloc(st, MkCon("undefined", <<>>))
             n == NewUnionType(u.st.arena, <<obj.types[i], u.idx>>)
         IN  [st |-> WithArena(u.st, n.arena), idx |-> n.idx]
    ELSE [st |-> st, idx |-> obj.types[i]]

\* The index of the first property of obj named key, or 0.
FindProp(obj, key) ==
    IF \E i \in 1..Len(obj.keys) : obj.keys[i] = key
    THEN CHOOSE i \in 1..Len(obj.keys) :
            /\ obj.keys[i] = key
            /\ \A j \in 1..(i - 1) : obj.keys[j] # key
    ELSE 0

\* The object obj whole, whatever names are to be kept.
SubObjectWhole(obj, keep) == obj

\* The properties of obj whose names are in the set keep, as a new object node.
SubObject(obj, keep) ==
    LET idxs == SelectSeq([i \in 1..Len(obj.keys) |-> i], LAMBDA i : obj.keys[i] \in keep)
    IN  MkObj([i \in 1..Len(idxs) |-> obj.keys[idxs[i]]],
              [i \in 1..Len(idxs) |-> obj.types[idxs[i]]],
              [i \in 1..Len(idxs) |-> obj.opts[idxs[i]]])

\* The pairs the (Function, Function) arm unifies, covariant in the
\* parameters.
FuncPairsCovariant(func_a, func_b) ==
    Append([i \in 1..Min(Len(func_a.types), Len(func_b.types)) |->
                <<func_a.types[i], func_b.types[i]>>],
           <<func_a.ret, func_b.ret>>)

\* The pairs the (Function, Function) arm unifies, in order: (q.t, p.t) for
\* (p, q) in func_a.params.zip(func_b.params), then the returns.
FuncPairs(func_a, func_b) ==
    Append([i \in 1..Min(Len(func_a.types), Len(func_b.types)) |->
                <<func_b.types[i], func_a.types[i]>>],
           <<func_a.ret, func_b.ret>>)

\* The length check of the (tuple, tuple) arm, with != for <.
TupleLengthDiffers(arena, ts1, ts2) ==
    /\ Len(ts1) # Len(ts2)
    /\ ~(/\ Len(ts1) > 0
         /\ arena[ts1[Len(ts1)]].kind = "Rest")

\* The length check of the (tuple, tuple) arm: tuple1 is shorter than tuple2
\* and its last element is not a rest element.
TupleTooShort(arena, ts1, ts2) ==
    /\ Len(ts1) < Len(ts2)
    /\ ~(/\ Len(ts1) > 0
         /\ arena[ts1[Len(ts1)]].kind = "Rest")

RECURSIVE Unify(_, _, _, _)
RECURSIVE Bind(_, _, _, _)
RECURSIVE UnifyEach(_, _, _, _)
RECURSIVE UnifyAny(_, _, _, _, _, _)
RECURSIVE UnifyTuples(_, _, _, _, _)
RECURSIVE UnifyTupleArray(_, _, _, _, _, _)
RECURSIVE UnifyArrayTuple(_, _, _, _, _, _)
RECURSIVE UnifyObjects(_, _, _, _, _, _)
RECURSIVE UnifyMatch(_, _, _, _, _)
RECURSIVE UnifyObjIntersection(_, _, _, _, _, _)
RECURSIVE UnifySimplified(_, _, _, _, _, _, _)
RECURSIVE UnifyRestElems(_, _, _, _, _)

\* set_instance on the target of the bind, whatever its kind.
SetInstanceOfTarget(st, a, b) ==
    IF ~IsOk(st.err) THEN st
    ELSE [st EXCEPT !.arena[b].instance = a,
                    !.binds = Append(@, <<a, b, st.arena[a].instance>>)]

\* The end of bind: unless the unify with the constraint has failed,
\* arena[a].set_instance(b).
SetInstance(st, a, b) ==
    IF ~IsOk(st.err) THEN st
    ELSE [st EXCEPT !.arena[a].instance = b,
                    !.binds = Append(@, <<a, b, st.arena[a].instance>>)]

\* bind without the occurs check.
BindNoOccursCheck(st, ctx, a, b) ==
    IF a = b THEN st
    ELSE LET c == st.arena[a].constraint
         IN  IF c # None
             THEN SetInstance(Unify(st, ctx, b, c), a, b)
             ELSE SetInstance(st, a, b)

\* bind that does not unify the target with the constraint.
BindNoConstraint(st, ctx, a, b) ==
    IF a = b THEN st
    ELSE
      LET occ == OccursInType(st.arena, a, b)
          st1 == WithArena(st, occ.arena)
      IN  IF occ.found
          THEN Fail(st1, Err("recursive unification", "", a, b))
          ELSE SetInstance(st1, a, b)

\* bind(arena, ctx, a, b)
Bind(st, ctx, a, b) ==
    IF a = b THEN st
    ELSE
      LET occ == OccursInType(st.arena, a, b)
          st1 == WithArena(st, occ.arena)
      IN  IF occ.found
          THEN Fail(st1, Err("recursive unification", "", a, b))
          ELSE LET c == st1.arena[a].constraint
               IN  IF c # None
                   THEN SetInstance(Unify(st1, ctx, b, c), a, b)
                   ELSE SetInstance(st1, a, b)

\* for (p, q) in pairs { unify(p, q)? }
UnifyEach(st, ctx, pairs, i) ==
    IF i > Len(pairs) \/ ~IsOk(st.err) THEN st
    ELSE UnifyEach(Unify(st, ctx, pairs[i][1], pairs[i][2]), ctx, pairs, i + 1)

\* for t2 in members { if unify(a, t2).is_ok() { return Ok } }; Err(mismatch)
UnifyAny(st, ctx, a, b, members, i) ==
    IF i > Len(members)
    THEN Fail(st, Err("type mismatch: unify failed", "", a, b))
    ELSE LET r == Unify(st, ctx, a, members[i])
         IN  IF IsOk(r.err) \/ IsPanic(r.err) THEN r
             ELSE UnifyAny([r EXCEPT !.err = Ok], ctx, a, b, members, i + 1)

\* The loop over tuple1.types.zip(tuple2.types).
UnifyTuples(st, ctx, ts1, ts2, i) ==
    IF i > Min(Len(ts1), Len(ts2)) THEN st
    ELSE
      LET p == ts1[i]
          q == ts2[i]
          pk == st.arena[p].kind
          qk == st.arena[q].kind
          restQ == StAlloc(st, MkTuple(Suffix(ts2, i)))
          restP == StAlloc(st, MkTuple(Suffix(ts1, i)))
          r == IF pk = "Rest" THEN Unify(restQ.st, ctx, p, restQ.idx)
               ELSE IF qk = "Rest" THEN Unify(restP.st, ctx, restP.idx, q)
               ELSE Unify(st, ctx, p, q)
      IN  IF pk = "Rest" /\ qk = "Rest"
          THEN Fail(st, Err("Can't unify two rest elements", "", p, q))
          ELSE IF IsOk(r.err) THEN UnifyTuples(r, ctx, ts1, ts2, i + 1) ELSE r

\* The loop of the (tuple, Array) arm: q is array.types[0], b the array.
UnifyTupleArray(st, ctx, ts, q, b, i) ==
    IF i > Len(ts) THEN st
    ELSE
      LET p == ts[i]
          pn == st.arena[p]
          r == IF IsCon(pn, "Array") THEN Unify(st, ctx, pn.types[1], q)
               ELSE IF pn.kind = "Rest" THEN Unify(st, ctx, p, b)
               ELSE Unify(st, ctx, p, q)
      IN  IF IsOk(r.err) THEN UnifyTupleArray(r, ctx, ts, q, b, i + 1) ELSE r

\* The loop of the (Array, tuple) arm: p is array.types[0], a the array.
UnifyArrayTuple(st, ctx, ts, p, a, i) ==
    IF i > Len(ts) THEN st
    ELSE
      LET q == ts[i]
          u == StAlloc(st, MkCon("undefined", <<>>))
          n == NewUnionType(u.st.arena, <<p, u.idx>>)
          st1 == WithArena(u.st, n.arena)
          r == IF st1.arena[q].kind = "Rest" THEN Unify(st1, ctx, a, q)
               ELSE Unify(st1, ctx, n.idx, q)
      IN  IF IsOk(r.err) THEN UnifyArrayTuple(r, ctx, ts, p, a, i + 1) ELSE r

\* The loop of the (Object, Object) arm over object2.props.
UnifyObjects(st, ctx, a, o1, o2, j) ==
    IF j > Len(o2.keys) THEN st
    ELSE
      LET i == FindProp(o1, o2.keys[j])
          p1 == PropType(st, o1, i)
          p2 == PropType(p1.st, o2, j)
          r == Unify(p2.st, ctx, p1.idx, p2.idx)
      IN  IF i = 0
          THEN Fail(st, Err("is missing in", o2.keys[j], a, 0))
          ELSE IF IsOk(r.err) THEN UnifyObjects(r, ctx, a, o1, o2, j + 1) ELSE r

\* The (Object, @@intersection) arm when objFirst, the (@@intersection,
\* Object) arm otherwise: obj is the object, inter the intersection.
UnifyObjIntersection(st, ctx, t1, obj, inter, objFirst) ==
    LET obj_types == SelectSeq(inter.types, LAMBDA t : st.arena[t].kind = "Object")
        rest_types == SelectSeq(inter.types, LAMBDA t : st.arena[t].kind = "Variable")
    IN  UnifySimplified(st, ctx, t1, obj, rest_types,
                        SimplifyIntersection(st.arena, obj_types), objFirst)

\* The match on rest_types.len() without its last arm: with more than one
\* variable the first one is taken.
UnifySimplifiedFirstVar(st, ctx, t1, obj, rest_types, si, objFirst) ==
    LET st1 == WithArena(st, si.arena)
        obj_type == si.idx
        all == IF st1.arena[obj_type].kind = "Object"
               THEN Range(st1.arena[obj_type].keys) ELSE {}
        no == StAlloc(st1, SubObject(obj, all))
    IN  IF Len(rest_types) = 0 THEN Unify(st1, ctx, t1, obj_type)
        ELSE UnifyRestElems(IF objFirst THEN Unify(no.st, ctx, no.idx, obj_type)
                            ELSE Unify(no.st, ctx, obj_type, no.idx),
                            ctx, SubObject(obj, Range(obj.keys) \ all),
                            rest_types[1], objFirst)

\* The match on rest_types.len(); si is [arena, idx], what
\* simplify_intersection returned.
UnifySimplified(st, ctx, t1, obj, rest_types, si, objFirst) ==
    LET st1 == WithArena(st, si.arena)
        obj_type == si.idx
        all == IF st1.arena[obj_type].kind = "Object"
               THEN Range(st1.arena[obj_type].keys) ELSE {}
        no == StAlloc(st1, SubObject(obj, all))
    IN  IF Len(rest_types) = 0 THEN Unify(st1, ctx, t1, obj_type)
        ELSE IF Len(rest_types) = 1
        THEN UnifyRestElems(IF objFirst THEN Unify(no.st, ctx, no.idx, obj_type)
                            ELSE Unify(no.st, ctx, obj_type, no.idx),
                            ctx, SubObject(obj, Range(obj.keys) \ all),
                            rest_types[1], objFirst)
        ELSE Fail(st1, Err("Inference is undecidable", "", 0, 0))

\* The second unify of the arm, of the object of rest_elems with the
\* variable; r1 is the state the first unify returned.
UnifyRestElems(r1, ctx, rest_obj, rest, objFirst) ==
    IF ~IsOk(r1.err) THEN r1
    ELSE IF objFirst
    THEN Unify(WithArena(r1, Append(r1.arena, rest_obj)), ctx, Len(r1.arena) + 1, rest)
    ELSE Unify(WithArena(r1, Append(r1.arena, rest_obj)), ctx, rest, Len(r1.arena) + 1)

\* The arm of the match of unify that the nodes at and bt take: the first
\* pattern, in the order of the source, that fits them.
UnifyArm(at, bt) ==
    IF IsVar(at) THEN "var_a"
    ELSE IF IsVar(bt) THEN "var_b"
    ELSE IF IsCon(bt, "unknown") THEN "unknown"
    ELSE IF IsCon(at, "@@union") THEN "union_a"
    ELSE IF IsCon(bt, "@@union") THEN "union_b"
    ELSE IF IsCon(at, "@@tuple") /\ IsCon(bt, "@@tuple") THEN "tuple_tuple"
    ELSE IF IsCon(at, "@@tuple") /\ IsCon(bt, "Array") THEN "tuple_array"
    ELSE IF IsCon(at, "Array") /\ IsCon(bt, "@@tuple") THEN "array_tuple"
    ELSE IF at.kind = "Rest" /\ (IsCon(bt, "Array") \/ IsCon(bt, "@@tuple")) THEN "rest_a"
    ELSE IF (IsCon(at, "Array") \/ IsCon(at, "@@tuple")) /\ bt.kind = "Rest" THEN "rest_b"
    ELSE IF at.kind = "Constructor" /\ bt.kind = "Constructor" THEN "constructors"
    ELSE IF at.kind = "Function" /\ bt.kind = "Function" THEN "functions"
    ELSE IF at.kind = "Literal" /\ bt.kind = "Literal" THEN "literals"
    ELSE IF at.kind = "Literal" /\ at.lit = "Number" /\ IsCon(bt, "number") THEN "lit_prim"
    ELSE IF at.kind = "Literal" /\ at.lit = "String" /\ IsCon(bt, "string") THEN "lit_prim"
    ELSE IF at.kind = "Literal" /\ at.lit = "Boolean" /\ IsCon(bt, "boolean") THEN "lit_prim"
    ELSE IF at.kind = "Object" /\ bt.kind = "Object" THEN "objects"
    ELSE IF at.kind = "Object" /\ IsCon(bt, "@@intersection") THEN "obj_inter"
    ELSE IF IsCon(at, "@@intersection") /\ bt.kind = "Object" THEN "inter_obj"
    ELSE "mismatch"

\* The match of unify on the kinds of a and b; t1 is the first argument of
\* the call.
UnifyMatch(st, ctx, t1, a, b) ==
    LET at == st.arena[a]
        bt == st.arena[b]
        fa == InstantiateFunc(at)
        fb == InstantiateFunc(bt)
        arm == UnifyArm(at, bt)
    IN  CASE arm = "var_a" -> Bind(st, ctx, a, b)
          [] arm = "var_b" -> Bind(st, ctx, b, a)
          [] arm = "unknown" -> st
          [] arm = "union_a" ->
                UnifyEach(st, ctx, [i \in 1..Len(at.types) |-> <<at.types[i], b>>], 1)
          [] arm = "union_b" -> UnifyAny(st, ctx, a, b, bt.types, 1)
          [] arm = "tuple_tuple" ->
                IF TupleTooShort(st.arena, at.types, bt.types)
                THEN Fail(st, Err("Expected tuple of length", "",
                                  Len(bt.types), Len(at.types)))
                ELSE UnifyTuples(st, ctx, at.types, bt.types, 1)
          [] arm = "tuple_array" -> UnifyTupleArray(st, ctx, at.types, bt.types[1], b, 1)
          [] arm = "array_tuple" -> UnifyArrayTuple(st, ctx, bt.types, at.types[1], a, 1)
          [] arm = "rest_a" -> Unify(st, ctx, at.types[1], b)
          [] arm = "rest_b" -> Unify(st, ctx, a, bt.types[1])
          [] arm = "constructors" ->
                IF at.name # bt.name \/ Len(at.types) # Len(bt.types)
                THEN Fail(st, Err("type mismatch: !=", "", a, b))
                ELSE UnifyEach(st, ctx,
                       [i \in 1..Len(at.types) |-> <<at.types[i], bt.types[i]>>], 1)
          [] arm = "functions" ->
                IF Len(fa.types) > Len(fb.types)
                THEN Fail(st, Err("requires more params", "", a, b))
                ELSE UnifyEach(st, ctx, FuncPairs(fa, fb), 1)
          [] arm = "literals" ->
                IF at.lit = bt.lit /\ at.name = bt.name
                THEN st
                ELSE Fail(st, Err("type mismatch: !=", "", a, b))
          [] arm = "lit_prim" -> st
          [] arm = "objects" -> UnifyObjects(st, ctx, a, at, bt, 1)
          [] arm = "obj_inter" -> UnifyObjIntersection(st, ctx, t1, at, bt, TRUE)
          [] arm = "inter_obj" -> UnifyObjIntersection(st, ctx, t1, bt, at, FALSE)
          [] OTHER -> Fail(st, Err("type mismatch: unify failed", "", a, b))

\* unify(arena, ctx, t1, t2): prune, expand the aliases, match.
\* unify that matches on its arguments as given, without pruning them.
UnifyUnpruned(st, ctx, t1, t2) ==
    IF Len(st.calls) >= MaxCalls
    THEN Fail(st, Err("stack overflow", "", t1, t2))
    ELSE UnifyMatch([st EXCEPT !.calls = Append(@, <<t1, t2>>)], ctx, t1, t1, t2)

Unify(st, ctx, t1, t2) ==
    IF Len(st.calls) >= MaxCalls
    THEN Fail(st, Err("stack overflow", "", t1, t2))
    ELSE
      LET s0 == [st EXCEPT !.calls = Append(@, <<t1, t2>>),
                           !.arena = PruneArena(PruneArena(st.arena, t1), t2)]
          a0 == PruneIdx(st.arena, t1)
          b0 == PruneIdx(st.arena, t2)
          an == s0.arena[a0]
          bn == s0.arena[b0]
          a == IF IsAliasRef(an) THEN ExpandAlias(s0.arena, ctx, an).idx ELSE a0
          b == IF IsAliasRef(bn) THEN ExpandAlias(s0.arena, ctx, bn).idx ELSE b0
      IN  IF IsAliasRef(an) /\ an.name \notin DOMAIN ctx.schemes
          THEN Fail(s0, Err("Unbound type name", an.name, a0, 0))
          ELSE IF IsAliasRef(bn) /\ bn.name \notin DOMAIN ctx.schemes
          THEN Fail(s0, Err("Unbound type name", bn.name, b0, 0))
          ELSE UnifyMatch(s0, ctx, t1, a, b)

----------------------------------------------------------------------------
(* unify_call(arena, ctx, arg_types, None, t2).  The result is [st, ret]:  *)
(* ret is the index returned with Ok, None with an error.                  *)

CallFail(st, e) == [st |-> Fail(st, e), ret |-> None]

\* Removes the later duplicates of a sequence of indices (Itertools::unique).
RECURSIVE Unique(_)
Unique(s) ==
    IF Len(s) = 0 THEN <<>>
    ELSE LET front == Unique(SubSeq(s, 1, Len(s) - 1))
         IN  IF s[Len(s)] \in Range(front) THEN front ELSE Append(front, s[Len(s)])

RECURSIVE UnifyCall(_, _, _, _)
RECURSIVE CallUnion(_, _, _, _, _, _)
RECURSIVE CallIntersection(_, _, _, _, _)

\* The "@@union" arm: the call is unified with every member, the returns are
\* collected in rets.
CallUnion(st, ctx, args, members, i, rets) ==
    IF i > Len(members)
    THEN LET n == NewUnionType(st.arena, Unique(rets))
         IN  [st |-> WithArena(st, n.arena), ret |-> n.idx]
    ELSE LET r == UnifyCall(st, ctx, args, members[i])
         IN  IF IsOk(r.st.err)
             THEN CallUnion(r.st, ctx, args, members, i + 1, Append(rets, r.ret))
             ELSE r

\* The "@@intersection" arm: the first member that accepts the call wins.
CallIntersection(st, ctx, args, members, i) ==
    IF i > Len(members)
    THEN CallFail(st, Err("no valid overload for args", "", 0, 0))
    ELSE LET r == UnifyCall(st, ctx, args, members[i])
         IN  IF IsOk(r.st.err) \/ IsPanic(r.st.err) THEN r
             ELSE CallIntersection([r.st EXCEPT !.err = Ok], ctx, args, members, i + 1)

UnifyCall(st, ctx, args, t2) ==
    LET rv == StAlloc(st, MkVar(None))
        ret_type == rv.idx
        s0 == WithArena(rv.st, PruneArena(rv.st.arena, t2))
        b == PruneIdx(rv.st.arena, t2)
        bt == s0.arena[b]
        ct == StAlloc(s0, MkFunc(args, SeqOf(Len(args), FALSE), ret_type))
        bound == Bind(ct.st, ctx, b, ct.idx)
        unified == UnifyEach(s0, ctx,
                     Append([i \in 1..Len(bt.types) |-> <<args[i], bt.types[i]>>],
                            <<ret_type, bt.ret>>), 1)
        done(r) == IF IsOk(r.err)
                   THEN [st |-> WithArena(r, PruneArena(r.arena, ret_type)),
                         ret |-> PruneIdx(r.arena, ret_type)]
                   ELSE [st |-> r, ret |-> None]
    IN  IF bt.kind = "Variable" THEN done(bound)
        ELSE IF IsCon(bt, "@@tuple")
        THEN CallFail(s0, Err("tuple is not callable", "", b, 0))
        ELSE IF IsCon(bt, "@@union") THEN CallUnion(s0, ctx, args, bt.types, 1, <<>>)
        ELSE IF IsCon(bt, "@@intersection")
        THEN CallIntersection(s0, ctx, args, bt.types, 1)
        ELSE IF bt.kind = "Constructor"
        THEN CallFail(s0, Err("panic: not yet implemented", bt.name, b, 0))
        ELSE IF bt.kind = "Literal"
        THEN CallFail(s0, Err("literal is not callable", "", b, 0))
        ELSE IF bt.kind = "Object"
        THEN CallFail(s0, Err("object is not callable", "", b, 0))
        ELSE IF bt.kind = "Rest"
        THEN CallFail(s0, Err("rest is not callable", "", b, 0))
        ELSE IF Len(args) < Len(bt.types)
        THEN CallFail(s0, Err("too few arguments to function", "",
                              Len(bt.types), Len(args)))
        ELSE done(unified)

----------------------------------------------------------------------------
(* fresh(arena, t, ctx): the Fresh visitor.  fs is [arena, mappings], with *)
(* mappings the set of pairs <<variable, its copy>>.                       *)

\* is_generic(arena, t, ctx) = !occurs_in(arena, t, &ctx.non_generic)
IsGeneric(arena, t, ctx) ==
    LET occ == OccursInList(arena, t, SortedIdx(ctx.non_generic), 1)
    IN  [arena |-> occ.arena, generic |-> ~occ.found]

\* visit_type_var that inserts a new variable at every occurrence.
VisitTypeVarNoReuse(fs, ctx, idx) ==
    LET g == IsGeneric(fs.arena, idx, ctx)
        n == Alloc(g.arena, MkVar(None))
    IN  IF ~g.generic
        THEN [fs |-> [fs EXCEPT !.arena = g.arena], idx |-> idx]
        ELSE [fs |-> [arena |-> n.arena, mappings |-> fs.mappings \cup {<<idx, n.idx>>}],
              idx |-> n.idx]

\* Fresh::visit_type_var
VisitTypeVar(fs, ctx, idx) ==
    LET g == IsGeneric(fs.arena, idx, ctx)
        known == {m \in fs.mappings : m[1] = idx}
        n == Alloc(g.arena, MkVar(None))
    IN  IF ~g.generic
        THEN [fs |-> [fs EXCEPT !.arena = g.arena], idx |-> idx]
        ELSE IF known # {}
        THEN [fs |-> [fs EXCEPT !.arena = g.arena], idx |-> (CHOOSE m \in known : TRUE)[2]]
        ELSE [fs |-> [arena |-> n.arena, mappings |-> fs.mappings \cup {<<idx, n.idx>>}],
              idx |-> n.idx]

RECURSIVE VisitIndex(_, _, _)
RECURSIVE VisitMany(_, _, _, _, _)

\* Visitor::visit_index: get_type prunes; a variable goes to visit_type_var,
\* any other node is rebuilt from its visited components and put_type'd.
VisitIndex(fs, ctx, t) ==
    LET ar == PruneArena(fs.arena, t)
        idx == PruneIdx(fs.arena, t)
        n == ar[idx]
        ch == VisitMany([fs EXCEPT !.arena = ar], ctx, Children(n), 1, <<>>)
        copy == [n EXCEPT !.types = SubSeq(ch.out, 1, Len(n.types)),
                          !.ret = IF n.kind = "Function" THEN ch.out[Len(ch.out)] ELSE None]
        put == Alloc(ch.fs.arena, copy)
    IN  IF IsVar(n)
        THEN VisitTypeVar([fs EXCEPT !.arena = ar], ctx, idx)
        ELSE [fs |-> [ch.fs EXCEPT !.arena = put.arena], idx |-> put.idx]

VisitMany(fs, ctx, ts, i, out) ==
    IF i > Len(ts) THEN [fs |-> fs, out |-> out]
    ELSE LET r == VisitIndex(fs, ctx, ts[i])
         IN  VisitMany(r.fs, ctx, ts, i + 1, Append(out, r.idx))

Fresh(arena, t, ctx) ==
    LET r == VisitIndex([arena |-> arena, mappings |-> {}], ctx, t)
    IN  [arena |-> r.fs.arena, idx |-> r.idx, mappings |-> r.fs.mappings]

----------------------------------------------------------------------------
(* instantiate_scheme: a copy of the type t in which a constructor named   *)
(* in mapping (a type parameter) is replaced by the type mapped to it.     *)

RECURSIVE InstantiateSchemeRec(_, _, _)
RECURSIVE InstantiateSchemeRecMany(_, _, _, _, _)

\* The Variable arm once the constraint c is instantiated: a variable is
\* inserted, whatever variable the scheme holds at this place.  The instance
\* is empty, since p is pruned.
InsertVariable(c) == Alloc(c.arena, MkVar(c.idx))

\* The Constructor arm once the type arguments are instantiated.
InsertConstructor(arena, name, types, mapping) ==
    IF name \in DOMAIN mapping
    THEN [arena |-> arena, idx |-> mapping[name]]
    ELSE Alloc(arena, MkCon(name, types))

\* The arms that rebuild a node n from its instantiated components ch.
Rebuild(n, ch, mapping) ==
    CASE n.kind = "Object" -> Alloc(ch.arena, MkObj(n.keys, ch.out, n.opts))
      [] n.kind = "Rest" -> Alloc(ch.arena, MkRest(ch.out[1]))
      [] n.kind = "Function" ->
            Alloc(ch.arena, MkFunc(SubSeq(ch.out, 1, Len(n.types)), n.opts,
                                   ch.out[Len(ch.out)]))
      [] n.kind = "Constructor" -> InsertConstructor(ch.arena, n.name, ch.out, mapping)

InstantiateSchemeRec(arena, tp, mapping) ==
    LET ar == PruneArena(arena, tp)
        p == PruneIdx(arena, tp)
        n == ar[p]
    IN  IF IsVar(n)
        THEN InsertVariable(IF n.constraint = None
                            THEN [arena |-> ar, idx |-> None]
                            ELSE InstantiateSchemeRec(ar, n.constraint, mapping))
        ELSE IF n.kind = "Literal" THEN Alloc(ar, MkLit(n.lit, n.name))
        ELSE Rebuild(n, InstantiateSchemeRecMany(ar, Children(n), mapping, 1, <<>>),
                     mapping)

InstantiateSchemeRecMany(arena, types, mapping, i, out) ==
    IF i > Len(types) THEN [arena |-> arena, out |-> out]
    ELSE LET r == InstantiateSchemeRec(arena, types[i], mapping)
         IN  InstantiateSchemeRecMany(r.arena, types, mapping, i + 1,
                                      Append(out, r.idx))

InstantiateScheme(arena, t, mapping) == InstantiateSchemeRec(arena, t, mapping)

----------------------------------------------------------------------------
(* The JavaScript generated for a match expression (crochet_codegen).      *)
(* A pattern is a record: kind "Ident", "Wildcard", "Rest", "Lit" (lit:    *)
(* the kind of the literal, name: its value), "Is" (name: the identifier), *)
(* "Object" (keys and subs: the key-value properties) and "Array" (subs:   *)
(* the elements).  An expression of the generated code is a record too:    *)
(* op "||" and "&&" with left and right, the comparisons "===",            *)
(* "typeof ===" and "instanceof" of the member at path with check, "guard" *)
(* the code of a guard, whose value at run time is check, and "none" for   *)
(* no expression (None).                                                   *)

Pattern(kind, name, lit, keys, subs) ==
    [kind |-> kind, name |-> name, lit |-> lit, keys |-> keys, subs |-> subs]

IdentPat(name) == Pattern("Ident", name, "", <<>>, <<>>)
WildcardPat == Pattern("Wildcard", "", "", <<>>, <<>>)
LitPat(lit, value) == Pattern("Lit", value, lit, <<>>, <<>>)
IsPat(is_id) == Pattern("Is", is_id, "", <<>>, <<>>)
ObjectPat(keys, subs) == Pattern("Object", "", "", keys, subs)
ArrayPat(elems) == Pattern("Array", "", "", <<>>, elems)

\* is_refutable(pat): a literal and a type test may fail at run time, and so
\* may a shape that holds one.
RECURSIVE IsRefutable(_)
IsRefutable(pat) ==
    CASE pat.kind \in {"Lit", "Is"} -> TRUE
      [] pat.kind \in {"Object", "Array"} ->
            \E i \in 1..Len(pat.subs) : IsRefutable(pat.subs[i])
      [] OTHER -> FALSE

\* PathElem::ObjProp(name) and PathElem::ArrayIndex(index)
ObjProp(name) == [kind |-> "ObjProp", name |-> name, index |-> 0]
ArrayIndex(index) == [kind |-> "ArrayIndex", name |-> "", index |-> index]

\* Check::EqualLit(lit), Check::Typeof(str) and Check::Instanceof(id)
EqualLit(lit, value) == [kind |-> "EqualLit", lit |-> lit, name |-> value]
Typeof(str) == [kind |-> "Typeof", lit |-> "", name |-> str]
Instanceof(id) == [kind |-> "Instanceof", lit |-> "", name |-> id]

Condition(path, check) == [path |-> path, check |-> check]

\* get_conds_for_pat(pat, conds, path): the conditions it pushes to conds.
RECURSIVE GetCondsForPat(_, _)
RECURSIVE GetCondsForSubs(_, _, _)
GetCondsForPat(pat, path) ==
    CASE pat.kind \in {"Object", "Array"} -> GetCondsForSubs(pat, path, 1)
      [] pat.kind = "Lit" -> <<Condition(path, EqualLit(pat.lit, pat.name))>>
      [] pat.kind = "Is" ->
            IF pat.name \in {"string", "number", "boolean"}
            THEN <<Condition(path, Typeof(pat.name))>>
            ELSE <<Condition(path, Instanceof(pat.name))>>
      [] OTHER -> <<>>

\* The loops over the properties of an object pattern and over the elements
\* of an array pattern, from the one at i on.
GetCondsForSubs(pat, path, i) ==
    IF i > Len(pat.subs) THEN <<>>
    ELSE GetCondsForPat(pat.subs[i],
                        Append(path, IF pat.kind = "Object"
                                     THEN ObjProp(pat.keys[i])
                                     ELSE ArrayIndex(i - 1)))
             \o GetCondsForSubs(pat, path, i + 1)

JsExpr(op, left, right, path, check) ==
    [op |-> op, left |-> left, right |-> right, path |-> path, check |-> check]

\* None, where the code has an Option<Expr>.
NoExpr == JsExpr("none", <<>>, <<>>, <<>>, <<>>)

Bin(op, left, right) == JsExpr(op, left, right, <<>>, <<>>)

\* A guard, with the value g its code has at run time.
GuardExpr(g) == JsExpr("guard", <<>>, <<>>, <<>>, g)

\* cond_to_expr(cond, id)
CondToExpr(cond) ==
    CASE cond.check.kind = "EqualLit" -> JsExpr("===", <<>>, <<>>, cond.path, cond.check)
      [] cond.check.kind = "Typeof" -> JsExpr("typeof ===", <<>>, <<>>, cond.path, cond.check)
      [] cond.check.kind = "Instanceof" ->
            JsExpr("instanceof", <<>>, <<>>, cond.path, cond.check)

\* The fold of build_cond_for_pat: the conditions from the one at i on are
\* joined to prev.
RECURSIVE FoldAnyOf(_, _, _)
FoldAnyOf(prev, conds, i) ==
    IF i > Len(conds) THEN prev
    ELSE FoldAnyOf(Bin("||", prev, CondToExpr(conds[i])), conds, i + 1)

\* The expression built from the conditions conds, if there is one.
FoldConds(conds) ==
    IF Len(conds) = 0 THEN NoExpr
    ELSE FoldAnyOf(CondToExpr(conds[1]), conds, 2)

\* build_cond_for_pat(pat, id)
BuildCondForPat(pat) ==
    IF IsRefutable(pat) THEN FoldConds(GetCondsForPat(pat, <<>>)) ELSE NoExpr

\* An arm of a match: its pattern and its guard (NoExpr without one); its
\* body is named by the place of the arm in the match.
Arm(pattern, guard) == [pattern |-> pattern, guard |-> guard]

\* The condition build_arm returns for the pattern condition cond and guard.
ArmCond(cond, guard) ==
    CASE cond.op # "none" /\ guard.op # "none" -> Bin("&&", cond, guard)
      [] cond.op # "none" /\ guard.op = "none" -> cond
      [] cond.op = "none" /\ guard.op # "none" -> guard
      [] OTHER -> NoExpr

\* build_arm(arm, id, stmts): the condition, and the block that returns the
\* body of the arm at i.
BuildArm(arm, i) ==
    [cond |-> ArmCond(BuildCondForPat(arm.pattern), arm.guard), block |-> i]

\* The loop of build_expr over the arms from the one at i on.
RECURSIVE BuildArms(_, _, _, _)
BuildArms(arms, i, has_catchall, built_arms) ==
    IF i > Len(arms) THEN [panic |-> "", built_arms |-> built_arms]
    ELSE IF has_catchall
    THEN [panic |-> "Catchall must appear last in match", built_arms |-> built_arms]
    ELSE LET b == BuildArm(arms[i], i)
         IN  BuildArms(arms, i + 1, b.cond.op = "none", Append(built_arms, b))

\* A statement of the generated code: an if with its test, the block cons
\* and alt, or a block alone.
IfStmt(test, cons, alt) == [kind |-> "If", test |-> test, cons |-> cons, alt |-> alt]
Block(block) == [kind |-> "Block", test |-> NoExpr, cons |-> block, alt |-> <<>>]
NoStmt == [kind |-> "none", test |-> NoExpr, cons |-> 0, alt |-> <<>>]

Reverse(s) == [i \in 1..Len(s) |-> s[Len(s) + 1 - i]]

\* What the chain starts from: the arm that comes first in arms.
FirstOf(arms) ==
    IF arms[1].cond.op = "none" THEN Block(arms[1].block)
    ELSE IfStmt(arms[1].cond, arms[1].block, NoStmt)

\* What the fold leaves when it unwraps a condition that is None.
UnwrapNone == [kind |-> "unwrap", test |-> NoExpr, cons |-> 0, alt |-> <<>>]

\* The fold that chains the arms from the one at i on in front of prev; it
\* unwraps their conditions.
RECURSIVE FoldIfElse(_, _, _)
FoldIfElse(prev, arms, i) ==
    IF i > Len(arms) THEN prev
    ELSE IF arms[i].cond.op = "none" THEN UnwrapNone
    ELSE FoldIfElse(IfStmt(arms[i].cond, arms[i].block, prev), arms, i + 1)

\* built_arms.reverse() and the chain of the arms, last arm innermost.
BuildIfElse(built_arms) ==
    FoldIfElse(FirstOf(Reverse(built_arms)), Reverse(built_arms), 2)

\* The match whose arms are built_arms and whose chain is stmt.
Chained(built_arms, stmt) ==
    IF stmt.kind = "unwrap"
    THEN [panic |-> "called Option::unwrap() on a None value",
          built_arms |-> built_arms, stmt |-> NoStmt]
    ELSE [panic |-> "", built_arms |-> built_arms, stmt |-> stmt]

\* What is built of a match once its arms are: the chain, or the panic.
MatchOf(b) ==
    IF b.panic # "" THEN [panic |-> b.panic, built_arms |-> b.built_arms, stmt |-> NoStmt]
    ELSE IF Len(b.built_arms) = 0
    THEN [panic |-> "No arms in match", built_arms |-> <<>>, stmt |-> NoStmt]
    ELSE Chained(b.built_arms, BuildIfElse(b.built_arms))

\* build_expr of a match with the arms arms.
BuildMatch(arms) == MatchOf(BuildArms(arms, 1, FALSE, <<>>))

----------------------------------------------------------------------------
(* The generated code at run time.  A value is a record: type is what      *)
(* typeof gives ("undefined" for undefined), lit the primitive, keys and   *)
(* vals the properties of an object or the elements of an array (array:    *)
(* TRUE), class the constructor of an object.                              *)

JsValue(type, lit, keys, vals, class, array) ==
    [type |-> type, lit |-> lit, keys |-> keys, vals |-> vals, class |-> class,
     array |-> array]

JsNum(n) == JsValue("number", n, <<>>, <<>>, "", FALSE)
JsStr(s) == JsValue("string", s, <<>>, <<>>, "", FALSE)
JsUndefined == JsValue("undefined", "", <<>>, <<>>, "", FALSE)
JsObject(keys, vals, class) == JsValue("object", "", keys, vals, class, FALSE)
JsArray(vals) == JsValue("object", "", <<>>, vals, "Array", TRUE)

\* What reading a member of undefined gives: a TypeError.
JsThrow == JsValue("@@throw", "", <<>>, <<>>, "", FALSE)

\* obj.name and obj[index]
Member(obj, elem) ==
    CASE obj.type \in {"undefined", "@@throw"} -> JsThrow
      [] elem.kind = "ObjProp" /\ elem.name \in Range(obj.keys) ->
            obj.vals[CHOOSE i \in 1..Len(obj.keys) : obj.keys[i] = elem.name]
      [] elem.kind = "ArrayIndex" /\ obj.array /\ elem.index < Len(obj.vals) ->
            obj.vals[elem.index + 1]
      [] OTHER -> JsUndefined

\* The member of value at the end of path.
RECURSIVE MemberAt(_, _, _)
MemberAt(value, path, i) ==
    IF i > Len(path) THEN value
    ELSE MemberAt(Member(value, path[i]), path, i + 1)

\* typeof of the literals of the kind lit.
TypeofLit(lit) ==
    CASE lit = "Number" -> "number"
      [] lit = "String" -> "string"
      [] lit = "Boolean" -> "boolean"

\* The comparison check of the value v: "true", "false" or "throw".
Compare(v, check) ==
    CASE v.type = "@@throw" -> "throw"
      [] check.kind = "EqualLit" ->
            IF v.type = TypeofLit(check.lit) /\ v.lit = check.name THEN "true" ELSE "false"
      [] check.kind = "Typeof" -> IF v.type = check.name THEN "true" ELSE "false"
      [] check.kind = "Instanceof" ->
            IF v.type = "object" /\ v.class = check.name THEN "true" ELSE "false"

\* The expression e for the value value of the match.
RECURSIVE Eval(_, _)
EvalRight(l, op, right, value) ==
    IF l = "throw" \/ (op = "||" /\ l = "true") \/ (op = "&&" /\ l = "false")
    THEN l
    ELSE Eval(right, value)

Eval(e, value) ==
    CASE e.op \in {"||", "&&"} -> EvalRight(Eval(e.left, value), e.op, e.right, value)
      [] e.op = "guard" -> e.check
      [] OTHER -> Compare(MemberAt(value, e.path, 1), e.check)

\* The block the statement stmt returns from for the value value: 0 when it
\* returns from none, -1 when it throws.
RECURSIVE Run(_, _)
RunIf(t, stmt, value) ==
    CASE t = "throw" -> -1
      [] t = "true" -> stmt.cons
      [] OTHER -> IF stmt.alt.kind = "none" THEN 0 ELSE Run(stmt.alt, value)

Run(stmt, value) ==
    IF stmt.kind = "Block" THEN stmt.cons
    ELSE RunIf(Eval(stmt.test, value), stmt, value)

----------------------------------------------------------------------------
(* union_types of the constraint solver.  Its types are values that carry  *)
(* an id; here a type is the node at the index that is its id, a member of *)
(* a union the index of the member.  The kinds of these nodes are "Prim"   *)
(* (name: the primitive), "Literal" (lit "Number", "String", "Boolean",    *)
(* "Null" or "Undefined"), "Variable" and "Union".  The ids that the       *)
(* throw-away ctx.prim(..) of the literal filter take are not kept: no     *)
(* type refers to them.                                                    *)

\* ctx.prim(prim)
MkPrim(n) == Node("Prim", n, "", <<>>, <<>>, <<>>, None, None, None)
\* ctx.union(types)
MkUnionType(ts) == Node("Union", "", "", ts, <<>>, <<>>, None, None, None)

\* The primitive that subsumes the literals of the kind lit.
LitPrim(lit) ==
    CASE lit = "Number" -> "number"
      [] lit = "Boolean" -> "boolean"
      [] lit = "String" -> "string"
      [] lit = "Null" -> "null"
      [] OTHER -> "undefined"

\* flatten_types that does not descend into the members of a union.
FlattenTypesOneLevel(arena, t) ==
    IF arena[t].kind = "Union" THEN arena[t].types ELSE <<t>>

\* flatten_types(ty): the members of a union, each flattened, or ty itself.
RECURSIVE FlattenTypes(_, _)
RECURSIVE FlattenMany(_, _, _)
FlattenTypes(arena, t) ==
    IF arena[t].kind = "Union" THEN FlattenMany(arena, arena[t].types, 1) ELSE <<t>>

\* types.iter().flat_map(flatten_types)
FlattenMany(arena, ts, i) ==
    IF i > Len(ts) THEN <<>>
    ELSE FlattenTypes(arena, ts[i]) \o FlattenMany(arena, ts, i + 1)

\* The equality of two types: the id is compared for a type variable only,
\* the kind, the content and the members, in order, for every other type.
RECURSIVE TypeEq(_, _, _)
TypeEq(arena, x, y) ==
    IF IsVar(arena[x]) \/ IsVar(arena[y]) THEN x = y
    ELSE /\ arena[x].kind = arena[y].kind
         /\ arena[x].name = arena[y].name
         /\ arena[x].lit = arena[y].lit
         /\ Len(arena[x].types) = Len(arena[y].types)
         /\ \A i \in 1..Len(arena[x].types) :
               TypeEq(arena, arena[x].types[i], arena[y].types[i])

\* types.iter().cloned().collect::<HashSet<_>>(): of equal types the one
\* that is inserted first stays.
TypesSet(arena, types) ==
    {types[i] : i \in {k \in 1..Len(types) :
                          \A j \in 1..(k - 1) : ~TypeEq(arena, types[j], types[k])}}

\* prim_types
PrimTypes(arena, S) == {t \in S : arena[t].kind = "Prim"}

\* lit_types: the literals whose primitive is not in prim_types.
LitTypes(arena, S) ==
    {t \in S : /\ arena[t].kind = "Literal"
               /\ \A p \in PrimTypes(arena, S) : arena[p].name # LitPrim(arena[t].lit)}

\* rest_types
RestTypes(arena, S) == {t \in S : arena[t].kind \notin {"Prim", "Literal"}}

\* The end of union_types: types is sorted by id; more than one type is a new
\* union, one type is itself.
UnionOrMember(arena, types) ==
    IF Len(types) > 1 THEN Alloc(arena, MkUnionType(types))
    ELSE [arena |-> arena, idx |-> types[1]]

\* The three sets chained and sorted by id.
SortedMembers(arena, S) ==
    SortedIdx(PrimTypes(arena, S) \cup LitTypes(arena, S) \cup RestTypes(arena, S))

\* union_types(t1, t2, ctx)
UnionTypes(arena, t1, t2) ==
    UnionOrMember(arena,
        SortedMembers(arena,
            TypesSet(arena, FlattenTypes(arena, t1) \o FlattenTypes(arena, t2))))

----------------------------------------------------------------------------
(* Inference of the effect (throws) of a function.  An expression is a     *)
(* record: e is its kind, name its identifier or value, params the         *)
(* parameters of a lambda or the parameter of a catch clause, subs its     *)
(* operands or the statements of its block, handler the statements of the  *)
(* catch block of a try.                                                   *)
(* The state of an inference, is:                                          *)
(*   st     the arena and the error, as unify takes them                   *)
(*   env    the value bindings of the context: name -> index               *)
(*   acc    the throws accumulator of the function scope being inferred    *)
(*   fx     the throws of the function types: index -> effect, or None     *)
(*   lams   one record for every lambda inferred: its type f, the          *)
(*          accumulator of the enclosing scope before (outer) and after    *)
(*          (left) it, and the effects raised in its body (raised)         *)
(*   tries  one record for every try inferred: the accumulator of the      *)
(*          enclosing scope before (outer) and after (left) it, the        *)
(*          effects raised in its blocks (body, handler) and the types of  *)
(*          the blocks and of the expression (tbody, thandler, t)          *)

Ex(e, name, params, subs, handler) ==
    [e |-> e, name |-> name, params |-> params, subs |-> subs, handler |-> handler]

NumLit(v) == Ex("num", v, <<>>, <<>>, <<>>)
StrLit(v) == Ex("str", v, <<>>, <<>>, <<>>)
Ident(n) == Ex("ident", n, <<>>, <<>>, <<>>)
Call(f, args) == Ex("call", f, <<>>, args, <<>>)
Throw(x) == Ex("throw", "", <<>>, <<x>>, <<>>)
Let(n, x) == Ex("let", n, <<>>, <<x>>, <<>>)
Lambda(params, body) == Ex("lambda", "", params, body, <<>>)
TryCatch(body, p, handler) == Ex("try", "catch", <<p>>, body, handler)
TryFinally(body) == Ex("try", "finally", <<>>, body, <<>>)

\* Structural equality of two types, by pruned form.
RECURSIVE Equals(_, _, _)
Equals(arena, x, y) ==
    LET a == PruneIdx(arena, x)
        b == PruneIdx(arena, y)
    IN  \/ a = b
        \/ /\ ~IsVar(arena[a]) /\ ~IsVar(arena[b])
           /\ arena[a].kind = arena[b].kind
           /\ arena[a].name = arena[b].name
           /\ arena[a].lit = arena[b].lit
           /\ arena[a].keys = arena[b].keys
           /\ arena[a].opts = arena[b].opts
           /\ Len(arena[a].types) = Len(arena[b].types)
           /\ \A i \in 1..Len(arena[a].types) :
                 Equals(arena, arena[a].types[i], arena[b].types[i])
           /\ (arena[a].ret = None) = (arena[b].ret = None)
           /\ arena[a].ret # None => Equals(arena, arena[a].ret, arena[b].ret)

\* The members of the effects ts[i..]: an effect that is a union stands for
\* its members (the accumulator is an associative collection).
RECURSIVE EffectMembers(_, _, _)
EffectMembers(arena, ts, i) ==
    IF i > Len(ts) THEN <<>>
    ELSE LET t == PruneIdx(arena, ts[i])
         IN  (IF IsCon(arena[t], "@@union")
              THEN EffectMembers(arena, arena[t].types, 1)
              ELSE <<t>>) \o EffectMembers(arena, ts, i + 1)

\* The entries of ts at the positions keep, in order.
Kept(ts, keep) == LET s == SortedIdx(keep) IN [k \in 1..Len(s) |-> ts[s[k]]]

\* Deduplication by index: equal effects held at two indices both stay.
DedupeByIndex(arena, ts) ==
    Kept(ts, {i \in 1..Len(ts) : \A j \in 1..(i - 1) : ts[j] # ts[i]})

\* Deduplication by structural equality (idempotent collection): of equal
\* effects the first stays.
Dedupe(arena, ts) ==
    Kept(ts, {i \in 1..Len(ts) : \A j \in 1..(i - 1) : ~Equals(arena, ts[j], ts[i])})

\* The effect an accumulator stands for: none, its only member, or the
\* union of its members.
JoinThrows(arena, acc) ==
    LET ms == Dedupe(arena, EffectMembers(arena, acc, 1))
    IN  IF Len(ms) = 0 THEN [arena |-> arena, idx |-> None]
        ELSE NewUnionType(arena, ms)

\* The throws of the function type f.
CalleeThrows(fx, f) == IF f \in DOMAIN fx THEN fx[f] ELSE None

IsNever(arena, t) == IsCon(arena[PruneIdx(arena, t)], "never")

\* The accumulator of the enclosing scope after a lambda whose body raised
\* inner, shared with the lambda: the effects of the body reach it.
LeaveLambdaShared(outer, inner) == outer \o inner

\* The accumulator of the enclosing scope after a lambda whose body raised
\* inner: the body had an accumulator of its own, discarded on exit.
LeaveLambda(outer, inner) == outer

\* The accumulator of the enclosing scope after a try that catches nothing.
LeaveTryUncaught(outer, body, handler, caught) == outer \o body \o handler

\* The accumulator of the enclosing scope after a try: the effects of the
\* catch block and the uncaught effects of the try block are joined into it.
LeaveTry(outer, body, handler, caught) ==
    outer \o (IF caught THEN <<>> ELSE body) \o handler

RECURSIVE InferExpr(_, _, _)
RECURSIVE InferBlock(_, _, _, _, _)
RECURSIVE InferArgs(_, _, _, _, _)

\* The result of inferring an expression: the state and the type.
Typed(is, t) == [is |-> is, t |-> t]

\* A scope that ended in the state inner with an error is left for the
\* scope that was entered in the state is.
Failed(inner, is) == Typed([inner EXCEPT !.env = is.env, !.acc = is.acc], None)

\* The arguments of a call, inferred left to right.
NextArg(r, ctx, es, i, ts) == InferArgs(r.is, ctx, es, i + 1, Append(ts, r.t))

InferArgs(is, ctx, es, i, ts) ==
    IF i > Len(es) \/ ~IsOk(is.st.err) THEN [is |-> is, ts |-> ts]
    ELSE NextArg(InferExpr(is, ctx, es[i]), ctx, es, i, ts)

\* The statements of a block, in order; the type of the block is the type
\* of its last statement.
NextStmt(r, ctx, stmts, i) == InferBlock(r.is, ctx, stmts, i + 1, r.t)

InferBlock(is, ctx, stmts, i, t) ==
    IF i > Len(stmts) \/ ~IsOk(is.st.err) THEN Typed(is, t)
    ELSE NextStmt(InferExpr(is, ctx, stmts[i]), ctx, stmts, i)

\* Call: unify_call on the callee f and the argument types; if the callee
\* has a throws, th, it is joined into the caller's accumulator.
CallJoin(as, r, th) ==
    Typed([as.is EXCEPT !.st = r.st,
                        !.acc = IF IsOk(r.st.err) /\ th # None
                                THEN Append(@, th) ELSE @],
          r.ret)

CallWith(as, ctx, f) ==
    CallJoin(as, UnifyCall([as.is.st EXCEPT !.calls = <<>>], ctx, as.ts, f),
             CalleeThrows(as.is.fx, f))

CallArgs(as, ctx, e) ==
    IF ~IsOk(as.is.st.err) THEN Typed(as.is, None)
    ELSE CallWith(as, ctx, as.is.env[e.name])

InferCall(is, ctx, e) == CallArgs(InferArgs(is, ctx, e.subs, 1, <<>>), ctx, e)

\* Lambda: fresh parameter variables in a new context, non-generic; the
\* body is inferred with an accumulator of its own; the throws of the
\* function type is what the body's accumulator collected.
ParamVars(is, e) == [i \in 1..Len(e.params) |-> Len(is.st.arena) + i]

LambdaScope(is, e) ==
    LET n == Len(e.params)
        base == Len(is.st.arena)
        penv == [p \in Range(e.params) |->
                    base + (CHOOSE i \in 1..n : e.params[i] = p)]
    IN  [is EXCEPT !.st.arena = @ \o SeqOf(n, MkVar(None)),
                   !.env = penv @@ @,
                   !.acc = <<>>]

LambdaLeave(is, b, th, f, left) ==
    Typed([b.is EXCEPT !.st.arena = f.arena,
                       !.env = is.env,
                       !.acc = left,
                       !.fx = (f.idx :> th.idx) @@ @,
                       !.lams = Append(@, [f |-> f.idx,
                                           outer |-> is.acc,
                                           left |-> left,
                                           raised |-> b.is.acc])],
          f.idx)

LambdaType(is, b, vs, th) ==
    LambdaLeave(is, b, th,
                Alloc(th.arena, MkFunc(vs, SeqOf(Len(vs), FALSE), b.t)),
                LeaveLambda(is.acc, b.is.acc))

LambdaBody(is, b, vs) ==
    IF ~IsOk(b.is.st.err) THEN Failed(b.is, is)
    ELSE LambdaType(is, b, vs, JoinThrows(b.is.st.arena, b.is.acc))

InferLambda(is, ctx, e) ==
    LambdaBody(is,
               InferBlock(LambdaScope(is, e),
                          [ctx EXCEPT !.non_generic = @ \cup Range(ParamVars(is, e))],
                          e.subs, 1, None),
               ParamVars(is, e))

\* Try: the try block is inferred with a local accumulator; the parameter
\* of the catch clause is unified with what it collected; the type is the
\* union of the types of the blocks (never, the type of a throw, adds
\* nothing to a union).  fin is the state the last block ended in, tb and
\* thd the types of the blocks, bacc and hacc what they raised.
TryLeave(is, fin, tb, thd, bacc, hacc, caught, u, left) ==
    Typed([fin EXCEPT !.st.arena = u.arena,
                      !.env = is.env,
                      !.acc = left,
                      !.tries = Append(@, [caught |-> caught,
                                           outer |-> is.acc,
                                           left |-> left,
                                           body |-> bacc,
                                           handler |-> hacc,
                                           tbody |-> tb,
                                           thandler |-> thd,
                                           t |-> u.idx])],
          u.idx)

TryType(is, fin, tb, thd, bacc, hacc, caught) ==
    TryLeave(is, fin, tb, thd, bacc, hacc, caught,
             NewUnionType(fin.st.arena,
                          SelectSeq(IF caught THEN <<tb, thd>> ELSE <<tb>>,
                                    LAMBDA t : ~IsNever(fin.st.arena, t))),
             LeaveTry(is.acc, bacc, hacc, caught))

TryHandler(is, b, h) ==
    IF ~IsOk(h.is.st.err) THEN Failed(h.is, is)
    ELSE TryType(is, h.is, b.t, h.t, b.is.acc, h.is.acc, TRUE)

\* The parameter of the catch clause: a fresh variable pv, unified with the
\* effect th the try block collected, if any.
CatchBound(b, ctx, th, pv) ==
    [st |-> IF th.idx = None
            THEN [WithArena(b.is.st, pv.arena) EXCEPT !.calls = <<>>]
            ELSE Unify([WithArena(b.is.st, pv.arena) EXCEPT !.calls = <<>>],
                       ctx, pv.idx, th.idx),
     idx |-> pv.idx]

CatchParam(b, ctx, th) == CatchBound(b, ctx, th, Alloc(th.arena, MkVar(None)))

TryCatchHandler(is, ctx, e, b, p) ==
    TryHandler(is, b,
               InferBlock([b.is EXCEPT !.st = p.st,
                                       !.env = (e.params[1] :> p.idx) @@ is.env,
                                       !.acc = <<>>],
                          ctx, e.handler, 1, None))

TryBody(is, ctx, e, b) ==
    IF ~IsOk(b.is.st.err) THEN Failed(b.is, is)
    ELSE IF e.name = "catch"
    THEN TryCatchHandler(is, ctx, e, b,
                         CatchParam(b, ctx, JoinThrows(b.is.st.arena, b.is.acc)))
    ELSE TryType(is, b.is, b.t, None, b.is.acc, <<>>, FALSE)

InferTry(is, ctx, e) ==
    TryBody(is, ctx, e, InferBlock([is EXCEPT !.acc = <<>>], ctx, e.subs, 1, None))

\* A literal: a new literal type.
InferLit(is, node) ==
    LET a == StAlloc(is.st, node) IN Typed([is EXCEPT !.st = a.st], a.idx)

\* Throw: the type of the thrown expression, x.t, is joined into the
\* enclosing throws; the type of the expression is never.
InferThrow(x) ==
    LET n == StAlloc(x.is.st, MkCon("never", <<>>))
    IN  Typed([x.is EXCEPT !.st = n.st, !.acc = Append(@, x.t)], n.idx)

\* let name = x
InferLet(name, x) == Typed([x.is EXCEPT !.env = (name :> x.t) @@ @], x.t)

InferExpr(is, ctx, e) ==
    CASE e.e = "num" -> InferLit(is, MkLit("Number", e.name))
      [] e.e = "str" -> InferLit(is, MkLit("String", e.name))
      [] e.e = "ident" -> Typed(is, is.env[e.name])
      [] e.e = "call" -> InferCall(is, ctx, e)
      [] e.e = "throw" -> InferThrow(InferExpr(is, ctx, e.subs[1]))
      [] e.e = "let" -> InferLet(e.name, InferExpr(is, ctx, e.subs[1]))
      [] e.e = "lambda" -> InferLambda(is, ctx, e)
      [] e.e = "try" -> InferTry(is, ctx, e)

\* The state an inference starts in.
Infer0(arena, env, fx) ==
    [st |-> [arena |-> arena, err |-> Ok, calls |-> <<>>, binds |-> <<>>],
     env |-> env, acc |-> <<>>, fx |-> fx, lams |-> <<>>, tries |-> <<>>]

----------------------------------------------------------------------------
(* The arenas and contexts a run starts from.  No variable is instantiated *)
(* and a constraint holds no variable.  Each start names the operands the  *)
(* run draws from: lefts and rights for unify, callees and argss for       *)
(* unify_call, freshes for fresh.                                          *)

NoOpts(n) == SeqOf(n, FALSE)
NoSchemes == [n \in {} |-> None]

\* let-polymorphism: f is a lambda parameter (non-generic), x is generic.
HMArena ==
    << MkVar(None),                          \* 1  f
       MkVar(None),                          \* 2  x
       MkFunc(<<2>>, NoOpts(1), 2),          \* 3  (x) => x
       MkLit("Number", "4"),                 \* 4  4
       MkLit("Boolean", "true"),             \* 5  true
       MkFunc(<<2>>, NoOpts(1), 1),          \* 6  (x) => f
       MkFunc(<<1>>, NoOpts(1), 4),          \* 7  (f) => 4
       MkTuple(<<1, 2, 2>>) >>               \* 8  [f, x, x]

HMStart ==
    [arena |-> HMArena, schemes |-> NoSchemes, non_generic |-> {1},
     lefts |-> {1, 3, 6}, rights |-> {1, 3, 7},
     callees |-> {1, 3, 6}, argss |-> {<<1>>, <<4>>, <<5>>},
     freshes |-> {3, 6, 8},
     unions |-> {},
     lambdas |-> {},
     partss |-> {},
     bodies |-> {},
     matches |-> {}]

\* variables with a constraint.
ConstraintArena ==
    << MkCon("number", <<>>),                \* 1  number
       MkCon("string", <<>>),                \* 2  string
       MkVar(1),                             \* 3  T extends number
       MkLit("Number", "5"),                 \* 4  5
       MkLit("String", "hello"),             \* 5  "hello"
       MkUnion(<<1, 2>>),                    \* 6  number | string
       MkVar(6),                             \* 7  U extends number | string
       MkVar(None),                          \* 8  V
       MkTuple(<<8, 8>>) >>                  \* 9  [V, V]

ConstraintStart ==
    [arena |-> ConstraintArena, schemes |-> NoSchemes, non_generic |-> {},
     lefts |-> {3, 4, 5, 7, 8}, rights |-> {1, 3, 4, 5, 7, 8},
     callees |-> {3, 8}, argss |-> {<<4>>},
     freshes |-> {9},
     unions |-> {},
     lambdas |-> {},
     partss |-> {},
     bodies |-> {},
     matches |-> {}]

\* function types.
FuncArena ==
    << MkCon("number", <<>>),                \* 1  number
       MkCon("string", <<>>),                \* 2  string
       MkCon("boolean", <<>>),               \* 3  boolean
       MkUnion(<<1, 2>>),                    \* 4  number | string
       MkLit("Boolean", "true"),             \* 5  true
       MkFunc(<<1, 2>>, NoOpts(2), 3),       \* 6  (number, string) => boolean
       MkFunc(<<4>>, NoOpts(1), 5),          \* 7  (number | string) => true
       MkLit("Number", "5"),                 \* 8  5
       MkFunc(<<8>>, NoOpts(1), 3),          \* 9  (5) => boolean
       MkFunc(<<1>>, NoOpts(1), 3),          \* 10 (number) => boolean
       MkFunc(<<1, 2>>, <<FALSE, TRUE>>, 3), \* 11 (number, string?) => boolean
       MkFunc(<<>>, <<>>, 1),                \* 12 () => number
       MkFunc(<<1>>, <<TRUE>>, 5) >>         \* 13 (number?) => true

FuncStart ==
    [arena |-> FuncArena, schemes |-> NoSchemes, non_generic |-> {},
     lefts |-> {6, 7, 9, 10, 11, 12, 13}, rights |-> {6, 7, 9, 10, 11, 12, 13},
     callees |-> {6, 11, 12}, argss |-> {<<>>, <<8>>, <<8, 2>>},
     freshes |-> {7},
     unions |-> {},
     lambdas |-> {},
     partss |-> {},
     bodies |-> {},
     matches |-> {}]

\* object types.
ObjArena ==
    << MkCon("number", <<>>),                                \* 1  number
       MkCon("string", <<>>),                                \* 2  string
       MkCon("boolean", <<>>),                               \* 3  boolean
       MkLit("Number", "5"),                                 \* 4  5
       MkLit("String", "hello"),                             \* 5  "hello"
       MkLit("Boolean", "true"),                             \* 6  true
       MkObj(<<"a", "b">>, <<1, 2>>, NoOpts(2)),             \* 7  {a: number, b: string}
       MkObj(<<"a", "b", "c">>, <<4, 5, 6>>, NoOpts(3)),     \* 8  {a: 5, b: "hello", c: true}
       MkObj(<<"b">>, <<5>>, NoOpts(1)),                     \* 9  {b: "hello"}
       MkObj(<<>>, <<>>, <<>>),                              \* 10 {}
       MkObj(<<"a">>, <<4>>, <<TRUE>>),                      \* 11 {a?: 5}
       MkObj(<<"a", "b">>, <<1, 2>>, <<TRUE, FALSE>>),       \* 12 {a?: number, b: string}
       MkObj(<<"b">>, <<1>>, NoOpts(1)),                     \* 13 {b: number}
       MkObj(<<"c", "a">>, <<3, 1>>, NoOpts(2)),             \* 14 {c: boolean, a: number}
       MkObj(<<"a">>, <<1>>, NoOpts(1)),                     \* 15 {a: number}
       MkObj(<<"c">>, <<5>>, NoOpts(1)) >>                   \* 16 {c: "hello"}

ObjStart ==
    [arena |-> ObjArena, schemes |-> NoSchemes, non_generic |-> {},
     lefts |-> 7..16, rights |-> 7..16,
     callees |-> {7}, argss |-> {<<4>>},
     freshes |-> {9},
     unions |-> {},
     lambdas |-> {},
     partss |-> {},
     bodies |-> {},
     matches |-> {}]

\* literals, primitives, unions and one node of every other kind.
LitArena ==
    << MkCon("number", <<>>),                \* 1  number
       MkCon("string", <<>>),                \* 2  string
       MkCon("boolean", <<>>),               \* 3  boolean
       MkCon("unknown", <<>>),               \* 4  unknown
       MkCon("undefined", <<>>),             \* 5  undefined
       MkCon("never", <<>>),                 \* 6  never
       MkCon("null", <<>>),                  \* 7  null
       MkLit("Number", "5"),                 \* 8  5
       MkLit("String", "hello"),             \* 9  "hello"
       MkLit("Boolean", "true"),             \* 10 true
       MkLit("Number", "10"),                \* 11 10
       MkLit("String", "5"),                 \* 12 "5"
       MkUnion(<<2, 1, 8>>),                 \* 13 string | number | 5
       MkUnion(<<9, 11>>),                   \* 14 "hello" | 10
       MkTuple(<<8, 9>>),                    \* 15 [5, "hello"]
       MkFunc(<<1>>, NoOpts(1), 3),          \* 16 (number) => boolean
       MkObj(<<"a">>, <<8>>, NoOpts(1)),     \* 17 {a: 5}
       MkCon("Point", <<>>),                 \* 18 Point, an alias of 17
       MkCon("Array", <<1>>),                \* 19 Array<number>
       MkCon("Missing", <<>>),               \* 20 Missing, no alias of that name
       MkRest(19),                           \* 21 ...Array<number>
       MkCon("Promise", <<1>>),              \* 22 Promise<number>
       MkCon("symbol", <<>>),                \* 23 symbol
       MkIntersection(<<17, 16>>),           \* 24 {a: 5} & ((number) => boolean)
       MkUnion(<<10, 3, 4>>) >>              \* 25 true | boolean | unknown

LitSchemes == [n \in {"Point"} |-> 17]

\* literals on the left, every kind on the right.
LitStart ==
    [arena |-> LitArena, schemes |-> LitSchemes, non_generic |-> {},
     lefts |-> {8, 9, 10, 11, 12}, rights |-> 1..25,
     callees |-> {8}, argss |-> {<<>>},
     freshes |-> {13},
     unions |-> {},
     lambdas |-> {},
     partss |-> {},
     bodies |-> {},
     matches |-> {}]

\* every kind on the left, unknown and the unions on the right.
TopStart ==
    [arena |-> LitArena, schemes |-> LitSchemes, non_generic |-> {},
     lefts |-> 1..25, rights |-> {4, 13, 14, 25},
     callees |-> {16}, argss |-> {<<8>>},
     freshes |-> {15},
     unions |-> {},
     lambdas |-> {},
     partss |-> {},
     bodies |-> {},
     matches |-> {}]

\* tuple types.
TupleArena ==
    << MkCon("number", <<>>),                \* 1  number
       MkCon("string", <<>>),                \* 2  string
       MkCon("boolean", <<>>),               \* 3  boolean
       MkLit("Number", "5"),                 \* 4  5
       MkLit("String", "hello"),             \* 5  "hello"
       MkLit("Boolean", "true"),             \* 6  true
       MkTuple(<<1, 2>>),                    \* 7  [number, string]
       MkTuple(<<4, 5, 6>>),                 \* 8  [5, "hello", true]
       MkTuple(<<4>>),                       \* 9  [5]
       MkTuple(<<>>),                        \* 10 []
       MkTuple(<<5, 4>>),                    \* 11 ["hello", 5]
       MkCon("Array", <<1>>),                \* 12 Array<number>
       MkRest(12),                           \* 13 ...Array<number>
       MkTuple(<<1, 13>>),                   \* 14 [number, ...Array<number>]
       MkTuple(<<4, 4, 4>>),                 \* 15 [5, 5, 5]
       MkCon("Array", <<2>>),                \* 16 Array<string>
       MkRest(16),                           \* 17 ...Array<string>
       MkTuple(<<17, 1>>),                   \* 18 [...Array<string>, number]
       MkTuple(<<2, 17>>),                   \* 19 [string, ...Array<string>]
       MkVar(None),                          \* 20 V
       MkTuple(<<20, 20>>),                  \* 21 [V, V]
       MkCon("unknown", <<>>),               \* 22 unknown
       MkTuple(<<13, 22>>) >>                \* 23 [...Array<number>, unknown]

TupleStart ==
    [arena |-> TupleArena, schemes |-> NoSchemes, non_generic |-> {},
     lefts |-> {7, 8, 9, 10, 11, 12, 14, 15, 18, 19, 21, 23},
     rights |-> {7, 8, 9, 10, 11, 12, 14, 15, 18, 19, 21, 23},
     callees |-> {7}, argss |-> {<<>>},
     freshes |-> {21},
     unions |-> {},
     lambdas |-> {},
     partss |-> {},
     bodies |-> {},
     matches |-> {}]

\* callees: overload sets, unions of functions and types that are not callable.
CallArena ==
    << MkCon("number", <<>>),                \* 1  number
       MkCon("string", <<>>),                \* 2  string
       MkCon("boolean", <<>>),               \* 3  boolean
       MkLit("Number", "5"),                 \* 4  5
       MkLit("String", "hello"),             \* 5  "hello"
       MkLit("Boolean", "true"),             \* 6  true
       MkFunc(<<1, 1>>, NoOpts(2), 1),       \* 7  (number, number) => number
       MkFunc(<<2, 2>>, NoOpts(2), 2),       \* 8  (string, string) => string
       MkIntersection(<<7, 8>>),             \* 9  7 & 8
       MkFunc(<<>>, <<>>, 3),                \* 10 () => boolean
       MkFunc(<<>>, <<>>, 2),                \* 11 () => string
       MkUnion(<<10, 11>>),                  \* 12 10 | 11
       MkCon("boolean", <<>>),               \* 13 boolean, written a second time
       MkFunc(<<>>, <<>>, 13),               \* 14 () => boolean, with the boolean 13
       MkUnion(<<10, 14>>),                  \* 15 10 | 14
       MkFunc(<<>>, <<>>, 3),                \* 16 () => boolean, with the boolean 3
       MkUnion(<<10, 16>>),                  \* 17 10 | 16
       MkObj(<<"a">>, <<4>>, NoOpts(1)),     \* 18 {a: 5}
       MkIntersection(<<18, 4, 10, 11>>),    \* 19 {a: 5} & 5 & 10 & 11
       MkCon("Array", <<1>>),                \* 20 Array<number>
       MkIntersection(<<20, 10>>),           \* 21 Array<number> & 10
       MkRest(20),                           \* 22 ...Array<number>
       MkTuple(<<1, 2>>),                    \* 23 [number, string]
       MkUnion(<<7, 8>>),                    \* 24 7 | 8
       MkFunc(<<2>>, NoOpts(1), 2),          \* 25 (string) => string
       MkIntersection(<<8, 25, 7>>),         \* 26 8 & 25 & 7
       MkVar(None) >>                        \* 27 V

CallStart ==
    [arena |-> CallArena, schemes |-> NoSchemes, non_generic |-> {},
     lefts |-> {4}, rights |-> {1},
     callees |-> {1, 4, 9, 12, 15, 17, 19, 20, 21, 22, 26},
     argss |-> {<<>>, <<4, 4>>, <<4, 5>>, <<5, 5, 6>>, <<27, 5>>},
     freshes |-> {9},
     unions |-> {},
     lambdas |-> {},
     partss |-> {},
     bodies |-> {},
     matches |-> {}]

\* objects and intersections of objects and variables.
InterArena ==
    << MkCon("number", <<>>),                         \* 1  number
       MkCon("string", <<>>),                         \* 2  string
       MkVar(None),                                   \* 3  V1
       MkVar(None),                                   \* 4  V2
       MkLit("Number", "5"),                          \* 5  5
       MkLit("String", "hello"),                      \* 6  "hello"
       MkObj(<<"a">>, <<1>>, NoOpts(1)),              \* 7  {a: number}
       MkObj(<<"b">>, <<2>>, NoOpts(1)),              \* 8  {b: string}
       MkObj(<<"a", "b">>, <<5, 6>>, NoOpts(2)),      \* 9  {a: 5, b: "hello"}
       MkIntersection(<<7, 8>>),                      \* 10 {a: number} & {b: string}
       MkIntersection(<<7, 3>>),                      \* 11 {a: number} & V1
       MkIntersection(<<7, 3, 4>>),                   \* 12 {a: number} & V1 & V2
       MkIntersection(<<3, 4>>),                      \* 13 V1 & V2
       MkObj(<<"a">>, <<5>>, NoOpts(1)),              \* 14 {a: 5}
       MkObj(<<"a">>, <<3>>, NoOpts(1)),              \* 15 {a: V1}
       MkIntersection(<<15, 3>>),                     \* 16 {a: V1} & V1
       MkObj(<<"c">>, <<1>>, NoOpts(1)),              \* 17 {c: number}
       MkObj(<<"a", "c">>, <<17, 5>>, NoOpts(2)) >>   \* 18 {a: {c: number}, c: 5}

InterStart ==
    [arena |-> InterArena, schemes |-> NoSchemes, non_generic |-> {},
     lefts |-> {9, 10, 11, 12, 13, 14, 18},
     rights |-> {7, 9, 10, 11, 12, 13, 14, 16},
     callees |-> {10}, argss |-> {<<>>},
     freshes |-> {11},
     unions |-> {},
     lambdas |-> {},
     partss |-> {},
     bodies |-> {},
     matches |-> {}]

\* the types of the constraint solver: the index of a node is its id.
UnionArena ==
    << MkPrim("number"),                     \* 1  number
       MkPrim("boolean"),                    \* 2  boolean
       MkUnionType(<<1, 2>>),                \* 3  number | boolean
       MkPrim("boolean"),                    \* 4  boolean
       MkPrim("string"),                     \* 5  string
       MkUnionType(<<4, 5>>),                \* 6  boolean | string
       MkLit("Number", "5"),                 \* 7  5
       MkLit("Number", "10"),                \* 8  10
       MkLit("String", "hello"),             \* 9  "hello"
       MkLit("Boolean", "true"),             \* 10 true
       MkVar(None),                          \* 11 t11
       MkVar(None),                          \* 12 t12
       MkUnionType(<<7, 8>>),                \* 13 5 | 10
       MkUnionType(<<13, 9>>),               \* 14 (5 | 10) | "hello"
       MkLit("Null", "null"),                \* 15 null, the literal
       MkPrim("null"),                       \* 16 null, the primitive
       MkLit("Number", "5"),                 \* 17 5
       MkLit("Undefined", "undefined"),      \* 18 undefined, the literal
       MkPrim("undefined"),                  \* 19 undefined, the primitive
       MkUnionType(<<5, 17>>) >>             \* 20 string | 5

UnionStart ==
    [arena |-> UnionArena, schemes |-> NoSchemes, non_generic |-> {},
     lefts |-> {}, rights |-> {},
     callees |-> {}, argss |-> {},
     freshes |-> {},
     unions |-> {1, 3, 6, 7, 9, 10, 11, 12, 13, 14, 15, 16, 18, 19, 20},
     lambdas |-> {},
     partss |-> {},
     bodies |-> {},
     matches |-> {}]

\* effects: the declarations of the tests of throws.
ThrowsArena ==
    << MkCon("number", <<>>),                \* 1  number
       MkCon("string", <<>>),                \* 2  string
       MkLit("String", "DIV_BY_ZERO"),       \* 3  "DIV_BY_ZERO"
       MkLit("String", "NEGATIVE_NUMBER"),   \* 4  "NEGATIVE_NUMBER"
       MkFunc(<<1, 1>>, NoOpts(2), 1),       \* 5  add: (number, number) -> number
       MkFunc(<<1, 1>>, NoOpts(2), 1),       \* 6  div: ... throws "DIV_BY_ZERO"
       MkFunc(<<1>>, NoOpts(1), 1),          \* 7  sqrt: (number) -> number
                                             \*       throws "NEGATIVE_NUMBER"
       MkCon("undefined", <<>>),             \* 8  undefined
       MkFunc(<<2>>, NoOpts(1), 8),          \* 9  log: (string) -> undefined
       MkLit("String", "DIV_BY_ZERO"),       \* 10 "DIV_BY_ZERO", written again
       MkFunc(<<1, 1>>, NoOpts(2), 1),       \* 11 mod: ... throws "DIV_BY_ZERO"
       MkUnion(<<10, 4>>),                   \* 12 "DIV_BY_ZERO" | "NEGATIVE_NUMBER"
       MkFunc(<<1>>, NoOpts(1), 1) >>        \* 13 root: (number) -> number
                                             \*       throws 12

\* declare let add: ..., div: ..., sqrt: ..., log: ..., mod: ..., root: ...
ThrowsEnv ==
    [n \in {"add", "div", "sqrt", "log", "mod", "root"} |->
        CASE n = "add" -> 5 [] n = "div" -> 6 [] n = "sqrt" -> 7
          [] n = "log" -> 9 [] n = "mod" -> 11 [] n = "root" -> 13]

\* The throws of the declared function types.
ThrowsFx ==
    [f \in {5, 6, 7, 9, 11, 13} |->
        CASE f = 6 -> 3 [] f = 7 -> 4 [] f = 11 -> 10 [] f = 13 -> 12
          [] OTHER -> None]

AB == <<"a", "b">>
DivAB == Call("div", <<Ident("a"), Ident("b")>>)
AddAB == Call("add", <<Ident("a"), Ident("b")>>)
LogE == Call("log", <<Ident("e")>>)

\* The lambdas a run infers: the functions of the tests of throws and
\* variations of them.
Lambdas ==
    << \* 1 basic_throws_test, foo: fn (a, b) { return div(a, b) }
       Lambda(AB, <<DivAB>>),
       \* 2 basic_throws_test, bar: fn (a, b) { return add(a, b) }
       Lambda(AB, <<AddAB>>),
       \* 3 throws_multiple_exceptions: fn (a, b) { return sqrt(div(a, b)) }
       Lambda(AB, <<Call("sqrt", <<DivAB>>)>>),
       \* 4 scoped_throws: fn (a, b) { let inner = fn () => div(a, b)
       \*                              return a + b }
       Lambda(AB, <<Let("inner", Lambda(<<>>, <<DivAB>>)), AddAB>>),
       \* 5 throws_coalesces_duplicate_exceptions:
       \*   fn (a, b) { return div(1, a) + div(1, b) }
       Lambda(AB, <<Call("add", <<Call("div", <<NumLit("1"), Ident("a")>>),
                                  Call("div", <<NumLit("1"), Ident("b")>>)>>)>>),
       \* 6 infer_throws_from_throw, and a throwing call:
       \*   fn (a, b) { throw "DIV_BY_ZERO"; return div(a, b) }
       Lambda(AB, <<Throw(StrLit("DIV_BY_ZERO")), DivAB>>),
       \* 7 try_catches_throw:
       \*   fn (a, b) => try { throw "DIV_BY_ZERO"; div(a, b) }
       \*                catch (e) { log(e); 0 }
       Lambda(AB, <<TryCatch(<<Throw(StrLit("DIV_BY_ZERO")), DivAB>>, "e",
                             <<LogE, NumLit("0")>>)>>),
       \* 8 try_catches_throw_and_rethrows:
       \*   fn (a, b) => try { throw "DIV_BY_ZERO"; div(a, b) }
       \*                catch (e) { log(e); throw "RETHROWN_ERROR" }
       Lambda(AB, <<TryCatch(<<Throw(StrLit("DIV_BY_ZERO")), DivAB>>, "e",
                             <<LogE, Throw(StrLit("RETHROWN_ERROR"))>>)>>),
       \* 9 fn (a, b) { let inner = fn () => div(a, b); return inner() }
       Lambda(AB, <<Let("inner", Lambda(<<>>, <<DivAB>>)),
                    Call("inner", <<>>)>>),
       \* 10 fn (a, b) { sqrt(a); return try { div(a, b) } catch (e) { 0 } }
       Lambda(AB, <<Call("sqrt", <<Ident("a")>>),
                    TryCatch(<<DivAB>>, "e", <<NumLit("0")>>)>>),
       \* 11 fn (a, b) => try { div(a, b) } finally { }
       Lambda(AB, <<TryFinally(<<DivAB>>)>>),
       \* 12 fn (a, b) { root(a); return mod(a, b) }
       Lambda(AB, <<Call("root", <<Ident("a")>>),
                    Call("mod", <<Ident("a"), Ident("b")>>)>>),
       \* 13 fn (a, b) => try { let inner = fn () { throw "INNER" }
       \*                       add(a, b) } catch (e) { sqrt(a) }
       Lambda(AB, <<TryCatch(<<Let("inner",
                                   Lambda(<<>>, <<Throw(StrLit("INNER"))>>)),
                               AddAB>>, "e",
                             <<Call("sqrt", <<Ident("a")>>)>>)>>),
       \* 14 fn (a, b) { let inner = fn () => try { div(a, b) }
       \*                                     catch (e) { throw "INNER" }
       \*                inner(); return sqrt(a) }
       Lambda(AB, <<Let("inner",
                        Lambda(<<>>, <<TryCatch(<<DivAB>>, "e",
                                                <<Throw(StrLit("INNER"))>>)>>)),
                    Call("inner", <<>>),
                    Call("sqrt", <<Ident("a")>>)>>) >>

ThrowsStart ==
    [arena |-> ThrowsArena, schemes |-> NoSchemes, non_generic |-> {},
     lefts |-> {}, rights |-> {},
     callees |-> {}, argss |-> {},
     freshes |-> {},
     unions |-> {},
     lambdas |-> 1..Len(Lambdas),
     partss |-> {},
     bodies |-> {},
     matches |-> {}]

\* simplify_intersection: objects that share names and types, and a variable.
SimplifyArena ==
    << MkCon("number", <<>>),                         \* 1  number
       MkCon("string", <<>>),                         \* 2  string
       MkLit("Number", "5"),                          \* 3  5
       MkLit("String", "hello"),                      \* 4  "hello"
       MkObj(<<"a">>, <<1>>, NoOpts(1)),              \* 5  {a: number}
       MkObj(<<"a">>, <<3>>, NoOpts(1)),              \* 6  {a: 5}
       MkObj(<<"b">>, <<2>>, NoOpts(1)),              \* 7  {b: string}
       MkObj(<<"b", "a">>, <<4, 1>>, NoOpts(2)),      \* 8  {b: "hello", a: number}
       MkVar(None),                                   \* 9  V
       MkObj(<<>>, <<>>, <<>>) >>                     \* 10 {}

\* The orders in which the hash map may yield the names.
HashOrders == <<KeyOrder, <<"y", "x", "c", "b", "a">>>>

\* The sequences of one to three different members of S.
PartsOf(S) ==
    {<<x>> : x \in S}
        \cup {p \in {<<x, y>> : x \in S, y \in S} : p[1] # p[2]}
        \cup {p \in {<<x, y, z>> : x \in {5, 6}, y \in {7, 8, 9, 10}, z \in S} :
                 p[3] \notin {p[1], p[2]}}

SimplifyStart ==
    [arena |-> SimplifyArena, schemes |-> NoSchemes, non_generic |-> {},
     lefts |-> {}, rights |-> {},
     callees |-> {}, argss |-> {},
     freshes |-> {},
     unions |-> {},
     lambdas |-> {},
     partss |-> PartsOf({5, 6, 7, 8, 9, 10}),
     bodies |-> {},
     matches |-> {}]

\* instantiate_scheme: bodies that hold a variable, or a type parameter, at
\* several places.
SchemeArena ==
    << MkCon("number", <<>>),                \* 1  number
       MkVar(None),                          \* 2  V
       MkFunc(<<2>>, NoOpts(1), 2),          \* 3  (V) => V
       MkCon("T", <<>>),                     \* 4  T
       MkFunc(<<4>>, NoOpts(1), 4),          \* 5  (T) => T
       MkTuple(<<2, 1, 2>>),                 \* 6  [V, number, V]
       MkVar(1),                             \* 7  W: number
       MkFunc(<<7, 2>>, NoOpts(2), 7),       \* 8  (W, V) => W
       MkVar(None),                          \* 9  X, instantiated to V below
       MkObj(<<"a", "b">>, <<9, 2>>, NoOpts(2)),  \* 10 {a: X, b: V}
       MkRest(2),                            \* 11 ...V
       MkLit("Number", "5"),                 \* 12 5
       MkCon("Array", <<4>>),                \* 13 Array<T>
       MkFunc(<<13, 12>>, NoOpts(2), 4) >>   \* 14 (Array<T>, 5) => T

\* The mappings of type parameters a scheme is instantiated with.
SchemeMappings ==
    <<[n \in {} |-> None], [n \in {"T"} |-> 1], [n \in {"T"} |-> 2]>>

SchemeStart ==
    [arena |-> [SchemeArena EXCEPT ![9].instance = 2],
     schemes |-> NoSchemes, non_generic |-> {},
     lefts |-> {}, rights |-> {},
     callees |-> {}, argss |-> {},
     freshes |-> {},
     unions |-> {},
     lambdas |-> {},
     partss |-> {},
     bodies |-> {1, 2, 3, 5, 6, 7, 8, 9, 10, 11, 13, 14},
     matches |-> {}]

\* The matches whose code is generated.  x and y are identifiers, _ the
\* wildcard.
Five == LitPat("Number", "5")
Hello == LitPat("String", "hello")

Matches ==
    << \* {a: 5, b: "hello"} -> 1, _ -> 2
       <<Arm(ObjectPat(<<"a", "b">>, <<Five, Hello>>), NoExpr), Arm(WildcardPat, NoExpr)>>,
       \* [5, is string] -> 1, x -> 2
       <<Arm(ArrayPat(<<Five, IsPat("string")>>), NoExpr), Arm(IdentPat("x"), NoExpr)>>,
       \* 5 -> 1, "hello" -> 2, is number -> 3
       <<Arm(Five, NoExpr), Arm(Hello, NoExpr), Arm(IsPat("number"), NoExpr)>>,
       \* _ -> 1, 5 -> 2
       <<Arm(WildcardPat, NoExpr), Arm(Five, NoExpr)>>,
       \* {a: x} -> 1, 5 -> 2, _ -> 3
       <<Arm(ObjectPat(<<"a">>, <<IdentPat("x")>>), NoExpr), Arm(Five, NoExpr),
         Arm(WildcardPat, NoExpr)>>,
       \* x if (false) -> 1, 5 -> 2, y -> 3
       <<Arm(IdentPat("x"), GuardExpr("false")), Arm(Five, NoExpr), Arm(IdentPat("y"), NoExpr)>>,
       \* {a: 5} if (true) -> 1, {a: x} if (true) -> 2, [x, y] -> 3
       <<Arm(ObjectPat(<<"a">>, <<Five>>), GuardExpr("true")),
         Arm(ObjectPat(<<"a">>, <<IdentPat("x")>>), GuardExpr("true")),
         Arm(ArrayPat(<<IdentPat("x"), IdentPat("y")>>), NoExpr)>>,
       \* 5 if (false) -> 1, 5 -> 2
       <<Arm(Five, GuardExpr("false")), Arm(Five, NoExpr)>>,
       \* {a: 5, b: x} -> 1, {a: is number, b: "hello"} -> 2, _ -> 3
       <<Arm(ObjectPat(<<"a", "b">>, <<Five, IdentPat("x")>>), NoExpr),
         Arm(ObjectPat(<<"a", "b">>, <<IsPat("number"), Hello>>), NoExpr),
         Arm(WildcardPat, NoExpr)>>,
       \* a match without arms
       <<>>,
       \* is Foo -> 1, {a: {c: 5}} -> 2, [x, [5, "hello"]] -> 3, _ -> 4
       <<Arm(IsPat("Foo"), NoExpr),
         Arm(ObjectPat(<<"a">>, <<ObjectPat(<<"c">>, <<Five>>)>>), NoExpr),
         Arm(ArrayPat(<<IdentPat("x"), ArrayPat(<<Five, Hello>>)>>), NoExpr),
         Arm(WildcardPat, NoExpr)>> >>

\* The values the generated code is run for.
Values ==
    << JsObject(<<"a", "b">>, <<JsNum("5"), JsStr("hello")>>, "Object"),
       JsObject(<<"a", "b">>, <<JsNum("5"), JsStr("bye")>>, "Object"),
       JsObject(<<"a", "b">>, <<JsNum("6"), JsStr("hello")>>, "Object"),
       JsObject(<<"a", "b">>, <<JsStr("5"), JsStr("bye")>>, "Object"),
       JsArray(<<JsNum("5"), JsStr("hello")>>),
       JsArray(<<JsNum("5"), JsNum("6")>>),
       JsArray(<<JsNum("6"), JsStr("hello")>>),
       JsArray(<<JsNum("6"), JsNum("6")>>),
       JsNum("5"),
       JsStr("hello"),
       JsNum("6"),
       JsObject(<<"a">>, <<JsObject(<<"c">>, <<JsNum("5")>>, "Object")>>, "Foo"),
       JsObject(<<"a">>, <<JsObject(<<"c">>, <<JsNum("5")>>, "Object")>>, "Object"),
       JsArray(<<JsNum("6"), JsArray(<<JsNum("5"), JsStr("hello")>>)>>),
       JsArray(<<JsNum("6"), JsArray(<<JsNum("6"), JsStr("hello")>>)>>) >>

MatchStart ==
    [arena |-> <<>>, schemes |-> NoSchemes, non_generic |-> {},
     lefts |-> {}, rights |-> {},
     callees |-> {}, argss |-> {},
     freshes |-> {},
     unions |-> {},
     lambdas |-> {},
     partss |-> {},
     bodies |-> {},
     matches |-> 1..Len(Matches)]

Starts == <<HMStart, ConstraintStart, FuncStart, ObjStart, LitStart, TopStart,
            TupleStart, CallStart, InterStart, UnionStart, ThrowsStart,
            SimplifyStart, SchemeStart, MatchStart>>

----------------------------------------------------------------------------
(* The state machine: a run picks a start and applies up to MaxSteps       *)
(* operations to its arena.                                                *)
(*   scn    the start of the run                                           *)
(*   arena  the arena                                                      *)
(*   steps  the number of operations applied so far                        *)
(*   op     the last operation: its name and arguments                     *)
(*   pre    the arena before the last operation                            *)
(*   res    the result of the last operation: the error (or Ok), the       *)
(*          returned index, the calls of unify and the binds it made, and  *)
(*          for fresh the mapping it built                                 *)

VARIABLES scn, arena, steps, op, pre, res

vars == <<scn, arena, steps, op, pre, res>>

Ctx == [schemes |-> Starts[scn].schemes, non_generic |-> Starts[scn].non_generic]

St0(ar) == [arena |-> ar, err |-> Ok, calls |-> <<>>, binds |-> <<>>]

Op(name, t1, t2, args) == [name |-> name, t1 |-> t1, t2 |-> t2, args |-> args]

\* What an operation that is not an inference leaves of the inference.
NoInfer == [fx |-> <<>>, lams |-> <<>>, tries |-> <<>>]

\* What an operation that generates no code leaves of the code.
NoCode == [panic |-> "", built_arms |-> <<>>, stmt |-> NoStmt, block |-> 0]

Res(err, ret, calls, binds, mappings) ==
    [err |-> err, ret |-> ret, calls |-> calls, binds |-> binds, mappings |-> mappings,
     infer |-> NoInfer, code |-> NoCode]

\* The index the last operation returned, if any: a later operation may use it.
Last == IF res.ret # None THEN {res.ret} ELSE {}

\* A run of union_types folds types into one union: the first operation
\* takes any of the types S, a later one the type the last one returned.
FirstOrLast(S) == IF steps = 0 THEN S ELSE Last

Init ==
    /\ scn \in 1..Len(Starts)
    /\ arena = Starts[scn].arena
    /\ steps = 0
    /\ op = Op("init", None, None, <<>>)
    /\ pre = arena
    /\ res = Res(Ok, None, <<>>, <<>>, {})

\* The operation has returned: st is the state it ended in, ret the index
\* it returned.
Done(st, ret, mappings) ==
    /\ arena' = st.arena
    /\ res' = Res(st.err, ret, st.calls, st.binds, mappings)

DoneCall(r) == Done(r.st, r.ret, {})

DoneFresh(r) == Done(St0(r.arena), r.idx, r.mappings)

DoUnify(t1, t2) ==
    /\ steps < MaxSteps
    /\ Done(Unify(St0(arena), Ctx, t1, t2), None, {})
    /\ op' = Op("unify", t1, t2, <<>>)
    /\ pre' = arena
    /\ steps' = steps + 1
    /\ UNCHANGED scn

DoUnifyCall(args, t2) ==
    /\ steps < MaxSteps
    /\ DoneCall(UnifyCall(St0(arena), Ctx, args, t2))
    /\ op' = Op("unify_call", None, t2, args)
    /\ pre' = arena
    /\ steps' = steps + 1
    /\ UNCHANGED scn

DoFresh(t) ==
    /\ steps < MaxSteps
    /\ DoneFresh(Fresh(arena, t, Ctx))
    /\ op' = Op("fresh", t, None, <<>>)
    /\ pre' = arena
    /\ steps' = steps + 1
    /\ UNCHANGED scn

DoneUnion(r) == Done(St0(r.arena), r.idx, {})

DoUnionTypes(t1, t2) ==
    /\ steps < MaxSteps
    /\ DoneUnion(UnionTypes(arena, t1, t2))
    /\ op' = Op("union_types", t1, t2, <<>>)
    /\ pre' = arena
    /\ steps' = steps + 1
    /\ UNCHANGED scn

\* The lambda Lambdas[p] is inferred in the context of the declarations.
DoInferLambda(p) ==
    /\ steps < MaxSteps
    /\ LET r == InferExpr(Infer0(arena, ThrowsEnv, ThrowsFx), Ctx, Lambdas[p])
       IN  /\ arena' = r.is.st.arena
           /\ res' = [Res(r.is.st.err, r.t, <<>>, <<>>, {}) EXCEPT
                         !.infer = [fx |-> r.is.fx, lams |-> r.is.lams,
                                    tries |-> r.is.tries]]
    /\ op' = Op("infer_lambda", p, None, <<>>)
    /\ pre' = arena
    /\ steps' = steps + 1
    /\ UNCHANGED scn

\* simplify_intersection is a function of its arguments: a run applies it
\* once, to the arena it starts from, the hash map yielding the names in the
\* order HashOrders[o].
DoSimplifyIntersection(parts, o) ==
    /\ steps = 0
    /\ DoneUnion(SimplifyIntersectionIn(arena, parts, HashOrders[o]))
    /\ op' = Op("simplify_intersection", o, None, parts)
    /\ pre' = arena
    /\ steps' = steps + 1
    /\ UNCHANGED scn

\* instantiate_scheme is a function of its arguments and of the arena: a
\* run applies it once, to the arena it starts from, with the mapping
\* SchemeMappings[m].
DoInstantiateScheme(t, m) ==
    /\ steps = 0
    /\ DoneUnion(InstantiateScheme(arena, t, SchemeMappings[m]))
    /\ op' = Op("instantiate_scheme", t, m, <<>>)
    /\ pre' = arena
    /\ steps' = steps + 1
    /\ UNCHANGED scn

\* The code of the match Matches[p] is generated and, when its generation
\* does not panic, run for the value Values[v]: block is the arm whose body
\* the code returns.
RanFor(m, v) ==
    [panic |-> m.panic, built_arms |-> m.built_arms, stmt |-> m.stmt,
     block |-> IF m.panic # "" THEN 0 ELSE Run(m.stmt, Values[v])]

DoBuildMatch(p, v) ==
    /\ steps = 0
    /\ res' = [Res(Ok, None, <<>>, <<>>, {}) EXCEPT
                  !.code = RanFor(BuildMatch(Matches[p]), v)]
    /\ op' = Op("build_match", p, v, <<>>)
    /\ pre' = arena
    /\ steps' = steps + 1
    /\ UNCHANGED <<scn, arena>>

Next ==
    \/ \E t1 \in Starts[scn].lefts \cup Last, t2 \in Starts[scn].rights :
          DoUnify(t1, t2)
    \/ \E args \in Starts[scn].argss, t2 \in Starts[scn].callees \cup Last :
          DoUnifyCall(args, t2)
    \/ \E t \in Starts[scn].freshes : DoFresh(t)
    \/ \E t1 \in FirstOrLast(Starts[scn].unions), t2 \in Starts[scn].unions :
          DoUnionTypes(t1, t2)
    \/ \E p \in Starts[scn].lambdas : DoInferLambda(p)
    \/ \E parts \in Starts[scn].partss, o \in 1..Len(HashOrders) :
          DoSimplifyIntersection(parts, o)
    \/ \E t \in Starts[scn].bodies, m \in 1..Len(SchemeMappings) :
          DoInstantiateScheme(t, m)
    \/ \E p \in Starts[scn].matches, v \in 1..Len(Values) : DoBuildMatch(p, v)

Spec == Init /\ [][Next]_vars

----------------------------------------------------------------------------
(* What the claims speak of.                                               *)

\* The indices a node leads to: its instance and its components.
Succ(ar, t) ==
    Range(Children(ar[t])) \cup (IF ar[t].instance # None THEN {ar[t].instance} ELSE {})

\* The indices that can be reached from the set S (S included).
RECURSIVE ReachSet(_, _)
ReachSet(ar, S) ==
    LET N == S \cup UNION {Succ(ar, t) : t \in S}
    IN  IF N = S THEN S ELSE ReachSet(ar, N)

\* The uninstantiated variables of the arena ar.
Unbound(ar) == {v \in 1..Len(ar) : IsVar(ar[v]) /\ ar[v].instance = None}

\* The uninstantiated variables that occur in t.
VarsOf(ar, t) == ReachSet(ar, {t}) \cap Unbound(ar)

\* t holds no uninstantiated variable.
Closed(ar, t) == VarsOf(ar, t) = {}

\* The variable and the target of the bind that unify(t1, t2) makes first, if
\* its match takes one of the two variable arms (neither side is looked up as
\* an alias): <<a, b>>, else <<0, 0>>.
BindOf(ar, t1, t2) ==
    LET a == PruneIdx(ar, t1)
        b == PruneIdx(ar, t2)
    IN  IF IsAliasRef(ar[a]) \/ IsAliasRef(ar[b]) THEN <<0, 0>>
        ELSE IF IsVar(ar[a]) THEN <<a, b>>
        ELSE IF IsVar(ar[b]) THEN <<b, a>>
        ELSE <<0, 0>>

NonGeneric(ar, v) == v \in ReachSet(ar, Ctx.non_generic)

\* The pairs <<variable of x, what stands for it in y>> met when x and its
\* copy y are walked side by side.
RECURSIVE VarPairs(_, _, _)
VarPairs(ar, x, y) ==
    LET px == PruneIdx(ar, x)
        py == PruneIdx(ar, y)
        cx == Children(ar[px])
        cy == Children(ar[py])
    IN  IF IsVar(ar[px]) THEN {<<px, py>>}
        ELSE UNION {VarPairs(ar, cx[i], cy[i]) : i \in 1..Min(Len(cx), Len(cy))}

\* y is a copy of x: the same kinds, names, keys and flags all the way down,
\* whatever stands for the variables.
RECURSIVE SameShape(_, _, _)
SameShape(ar, x, y) ==
    LET nx == ar[PruneIdx(ar, x)]
        ny == ar[PruneIdx(ar, y)]
        cx == Children(nx)
        cy == Children(ny)
    IN  \/ IsVar(nx) /\ IsVar(ny)
        \/ /\ ~IsVar(nx)
           /\ [nx EXCEPT !.types = <<>>, !.ret = None] = [ny EXCEPT !.types = <<>>, !.ret = None]
           /\ Len(cx) = Len(cy)
           /\ \A i \in 1..Len(cx) : SameShape(ar, cx[i], cy[i])

\* C2: fresh(t, ctx) returns a copy of t in which every variable that occurs
\* in ctx.non_generic is the very same index, every other (generic) variable
\* is a variable that was not in the arena before the call, and the copies
\* correspond one to one to the generic variables (one copy for all the
\* occurrences of a variable, different copies for different variables).
C2_FreshCopies ==
    op.name = "fresh" =>
        LET P == VarPairs(arena, op.t1, res.ret)
        IN  /\ SameShape(arena, op.t1, res.ret)
            /\ \A p \in P :
                  IF NonGeneric(pre, p[1])
                  THEN p[2] = p[1]
                  ELSE /\ p[2] > Len(pre)
                       /\ p[2] \in Unbound(arena)
            /\ \A p, q \in P : (p[1] = q[1]) <=> (p[2] = q[2])
            /\ Unbound(pre) \subseteq Unbound(arena)

\* fresh has copied a type in which a generic variable occurs twice beside a
\* non-generic one.
C2_Witness ==
    /\ op.name = "fresh"
    /\ \E p, q \in VarPairs(arena, op.t1, res.ret) :
          /\ NonGeneric(pre, p[1])
          /\ ~NonGeneric(pre, q[1])
    /\ \E n \in ReachSet(pre, {op.t1}) :
          \E i, j \in 1..Len(pre[n].types) :
              /\ i # j
              /\ pre[n].types[i] = pre[n].types[j]
              /\ pre[n].types[i] \in Unbound(pre)
              /\ ~NonGeneric(pre, pre[n].types[i])

\* unify(b, C) on the arena before the last operation.
Probe(t1, t2) == Unify(St0(pre), Ctx, t1, t2)

Resolve(ar, t) ==
    LET p == PruneIdx(ar, t)
    IN  IF ~IsAliasRef(ar[p]) THEN p
        ELSE IF ar[p].name \in DOMAIN Ctx.schemes THEN Ctx.schemes[ar[p].name]
        ELSE 0

\* The last operation was unify on two types that resolve to nodes of the
\* kinds k1 and k2.
UnifyOf(k1, k2) ==
    /\ op.name = "unify"
    /\ Resolve(pre, op.t1) # 0
    /\ Resolve(pre, op.t2) # 0
    /\ pre[Resolve(pre, op.t1)].kind = k1
    /\ pre[Resolve(pre, op.t2)].kind = k2

\* C4: unify(f, g) on two function types, when it does not stop at the count
\* of the parameters, unifies the parameters as unify(g.param_i, f.param_i),
\* the first of them first, and the returns as unify(f.ret, g.ret); on
\* functions without variables it succeeds exactly when each g.param_i
\* unifies with f.param_i and f.ret unifies with g.ret, so a function one of
\* whose parameters is a strict subtype of g's parameter is rejected.
C4_FunctionVariance ==
    (UnifyOf("Function", "Function") /\ res.err.tag # "requires more params") =>
        LET f == pre[Resolve(pre, op.t1)]
            g == pre[Resolve(pre, op.t2)]
            n == Min(Len(f.types), Len(g.types))
        IN  /\ n >= 1 => res.calls[2] = <<g.types[1], f.types[1]>>
            /\ IsOk(res.err) => <<f.ret, g.ret>> \in Range(res.calls)
            /\ (Closed(pre, Resolve(pre, op.t1)) /\ Closed(pre, Resolve(pre, op.t2))) =>
                  /\ IsOk(res.err) <=>
                        /\ \A i \in 1..n : IsOk(Probe(g.types[i], f.types[i]).err)
                        /\ IsOk(Probe(f.ret, g.ret).err)
                  /\ \A i \in 1..n :
                        (/\ IsOk(Probe(f.types[i], g.types[i]).err)
                         /\ ~IsOk(Probe(g.types[i], f.types[i]).err)) => ~IsOk(res.err)

\* unify has accepted a function with a parameter wider than the parameter of
\* the expected function, one that would not unify the other way round.
C4_Witness ==
    /\ UnifyOf("Function", "Function")
    /\ IsOk(res.err)
    /\ LET f == pre[Resolve(pre, op.t1)]
           g == pre[Resolve(pre, op.t2)]
       IN  /\ Len(f.types) >= 1
           /\ Len(g.types) > Len(f.types)
           /\ ~IsOk(Probe(f.types[1], g.types[1]).err)
           /\ f.ret # g.ret

\* The number of required (non-optional) parameters of the function node n.
Required(n) == Cardinality({i \in 1..Len(n.types) : ~n.opts[i]})

\* C5: unify(f, g) on two function types fails with the 'requires more
\* params' error exactly when f has more required (non-optional) parameters
\* than g has parameters; an optional parameter of f never causes the error.
C5_RequiredParams ==
    UnifyOf("Function", "Function") =>
        (res.err.tag = "requires more params"
            <=> Required(pre[Resolve(pre, op.t1)]) > Len(pre[Resolve(pre, op.t2)].types))

\* The properties of the object node o2 that have no same-named property in
\* the object node o1, by their position in o2.
Missing(o1, o2) == {j \in 1..Len(o2.keys) : o2.keys[j] \notin Range(o1.keys)}

\* The least member of a non-empty set of numbers.
Least(S) == CHOOSE x \in S : \A y \in S : x <= y

\* C6 as stated: unify(o1, o2) on two object types (without variables)
\* succeeds exactly when every property of o2 has a same-named property in o1
\* whose type unifies with its type, and when some property of o2 has no
\* counterpart in o1 it fails with "'<name>' is missing in <o1>" for the
\* first such property.
C6_ObjectWidthAsStated ==
    (/\ UnifyOf("Object", "Object")
     /\ Closed(pre, Resolve(pre, op.t1))
     /\ Closed(pre, Resolve(pre, op.t2))) =>
        LET o1 == pre[Resolve(pre, op.t1)]
            o2 == pre[Resolve(pre, op.t2)]
        IN  /\ IsOk(res.err) <=>
                  \A j \in 1..Len(o2.keys) :
                      \E i \in 1..Len(o1.keys) :
                          /\ o1.keys[i] = o2.keys[j]
                          /\ IsOk(Probe(o1.types[i], o2.types[j]).err)
            /\ Missing(o1, o2) # {} =>
                  res.err = Err("is missing in", o2.keys[Least(Missing(o1, o2))],
                                Resolve(pre, op.t1), 0)

\* unify(p1_t, p2_t) for the property i of o1 and the property j of o2, on
\* the arena before the last operation: the type of an optional property is
\* taken as a new union of it with a new undefined.
PropProbe(o1, i, o2, j) ==
    LET ar1 == IF o1.opts[i]
               THEN pre \o <<MkCon("undefined", <<>>),
                             MkUnion(<<o1.types[i], Len(pre) + 1>>)>>
               ELSE pre
        p1 == IF o1.opts[i] THEN Len(pre) + 2 ELSE o1.types[i]
        ar2 == IF o2.opts[j]
               THEN ar1 \o <<MkCon("undefined", <<>>),
                             MkUnion(<<o2.types[j], Len(ar1) + 1>>)>>
               ELSE ar1
        p2 == IF o2.opts[j] THEN Len(ar1) + 2 ELSE o2.types[j]
    IN  Unify(St0(ar2), Ctx, p1, p2)

\* The properties of o2 that unify(o1, o2) cannot satisfy: those without a
\* same-named property in o1 and those whose type the type of the first
\* same-named property of o1 does not unify with.
Unsatisfied(o1, o2) ==
    {j \in 1..Len(o2.keys) :
        \/ FindProp(o1, o2.keys[j]) = 0
        \/ ~IsOk(PropProbe(o1, FindProp(o1, o2.keys[j]), o2, j).err)}

\* C6, amended: unify(o1, o2) on two object types (without variables)
\* succeeds exactly when every property of o2 has a same-named property in o1
\* whose type unifies with its type, the type of an optional property being
\* taken as `t | undefined` on either side; extra properties of o1 are
\* ignored, so every object unifies with the empty object; and unify fails at
\* the first property of o2 that is not satisfied: with "'<name>' is missing
\* in <o1>" when it has no counterpart in o1, with the error of the unify of
\* the two types otherwise.
C6_ObjectWidth ==
    (/\ UnifyOf("Object", "Object")
     /\ Closed(pre, Resolve(pre, op.t1))
     /\ Closed(pre, Resolve(pre, op.t2))) =>
        LET o1 == pre[Resolve(pre, op.t1)]
            o2 == pre[Resolve(pre, op.t2)]
            U == Unsatisfied(o1, o2)
        IN  /\ IsOk(res.err) <=> U = {}
            /\ Len(o2.keys) = 0 => IsOk(res.err)
            /\ U # {} =>
                  IF FindProp(o1, o2.keys[Least(U)]) = 0
                  THEN res.err = Err("is missing in", o2.keys[Least(U)],
                                     Resolve(pre, op.t1), 0)
                  ELSE res.err.tag =
                          PropProbe(o1, FindProp(o1, o2.keys[Least(U)]), o2, Least(U)).err.tag

\* unify has rejected an object whose optional property has a type that
\* unifies, as written, with the type of the required property of the other.
C6_Witness ==
    /\ UnifyOf("Object", "Object")
    /\ ~IsOk(res.err)
    /\ LET o1 == pre[Resolve(pre, op.t1)]
           o2 == pre[Resolve(pre, op.t2)]
       IN  /\ Missing(o1, o2) = {}
           /\ \E i \in 1..Len(o1.keys) : o1.opts[i]
           /\ \A j \in 1..Len(o2.keys) :
                 IsOk(Probe(o1.types[FindProp(o1, o2.keys[j])], o2.types[j]).err)

\* The last operation was unify(a, U) with U a union and a neither a variable
\* nor a union.
UnifyWithUnion ==
    /\ op.name = "unify"
    /\ Resolve(pre, op.t2) # 0
    /\ IsCon(pre[Resolve(pre, op.t2)], "@@union")
    /\ LET a == IF Resolve(pre, op.t1) # 0
                THEN Resolve(pre, op.t1) ELSE PruneIdx(pre, op.t1)
       IN  ~IsVar(pre[a]) /\ ~IsCon(pre[a], "@@union")

\* C7: unify(a, U), where U is a union and a is neither a variable nor a
\* union (both without variables), calls unify(a, m) for the members m of U
\* in their declared order up to the first member that accepts a and for no
\* later member, succeeds when a member accepts a, and returns the error
\* 'type mismatch: unify(a, U) failed' when no member accepts a.
C7_UnionMembersInOrder ==
    (/\ UnifyWithUnion
     /\ Closed(pre, op.t1)
     /\ Closed(pre, op.t2)) =>
        LET a == IF Resolve(pre, op.t1) # 0
                 THEN Resolve(pre, op.t1) ELSE PruneIdx(pre, op.t1)
            b == Resolve(pre, op.t2)
            members == pre[b].types
            accepts == {i \in 1..Len(members) : IsOk(Probe(a, members[i]).err)}
            last == IF accepts = {} THEN Len(members) ELSE Least(accepts)
            tried == SelectSeq(res.calls,
                               LAMBDA c : c[1] = a /\ c[2] \in Range(members))
        IN  /\ tried = [i \in 1..last |-> <<a, members[i]>>]
            /\ IsOk(res.err) <=> accepts # {}
            /\ accepts = {} => res.err = Err("type mismatch: unify failed", "", a, b)

\* The names of the primitive types.
Primitives ==
    {"number", "string", "boolean", "symbol", "null", "undefined", "never", "unknown"}

\* The node n is the name of a type that is neither a primitive nor built in:
\* an alias, declared in ctx.schemes or not.
IsNamed(n) == IsAliasRef(n) /\ n.name \notin Primitives

\* The name of the primitive a literal of the kind lit belongs to.
PrimitiveOf(lit) ==
    IF lit = "Number" THEN "number"
    ELSE IF lit = "String" THEN "string"
    ELSE "boolean"

\* C8: unify(L, t), where L is a literal type and t is neither a variable, a
\* union nor an alias, succeeds exactly when t is a literal of the same kind
\* and value, the primitive of L's kind, or unknown, and in every other case
\* returns a type-mismatch error.
C8_LiteralSubtyping ==
    (/\ op.name = "unify"
     /\ pre[PruneIdx(pre, op.t1)].kind = "Literal"
     /\ ~IsVar(pre[PruneIdx(pre, op.t2)])
     /\ ~IsCon(pre[PruneIdx(pre, op.t2)], "@@union")
     /\ ~IsNamed(pre[PruneIdx(pre, op.t2)])) =>
        LET L == pre[PruneIdx(pre, op.t1)]
            t == pre[PruneIdx(pre, op.t2)]
            accepted == \/ t.kind = "Literal" /\ t.lit = L.lit /\ t.name = L.name
                        \/ IsCon(t, PrimitiveOf(L.lit))
                        \/ IsCon(t, "unknown")
        IN  /\ IsOk(res.err) <=> accepted
            /\ ~accepted => res.err.tag \in {"type mismatch: !=",
                                             "type mismatch: unify failed"}

\* C9: unify(t1, unknown) succeeds for every type t1 that is not a variable:
\* every primitive, null, never and symbol included, literal, tuple, union,
\* function, object and declared named constructor.
C9_UnknownIsTop ==
    (/\ op.name = "unify"
     /\ IsCon(pre[PruneIdx(pre, op.t2)], "unknown")
     /\ ~IsVar(pre[PruneIdx(pre, op.t1)])
     /\ IsNamed(pre[PruneIdx(pre, op.t1)]) =>
            pre[PruneIdx(pre, op.t1)].name \in DOMAIN Ctx.schemes) =>
        IsOk(res.err)

\* The last operation was unify on two tuple types without rest elements.
UnifyOfTuples ==
    /\ UnifyOf("Constructor", "Constructor")
    /\ IsCon(pre[Resolve(pre, op.t1)], "@@tuple")
    /\ IsCon(pre[Resolve(pre, op.t2)], "@@tuple")
    /\ \A t \in Range(pre[Resolve(pre, op.t1)].types) \cup
                Range(pre[Resolve(pre, op.t2)].types) : pre[t].kind # "Rest"

\* C10: for two tuple types without rest elements, unify(t1, t2) fails with
\* 'Expected tuple of length len(t2), got tuple of length len(t1)' when t1
\* has fewer elements than t2; otherwise it succeeds exactly when the first
\* len(t2) elements of t1 unify, one pair after the other, with the elements
\* of t2 (each pair on its own when the tuples hold no variable), the
\* trailing elements of t1 being ignored: none of them is passed to unify.
C10_TupleWidth ==
    UnifyOfTuples =>
        LET ts1 == pre[Resolve(pre, op.t1)].types
            ts2 == pre[Resolve(pre, op.t2)].types
            pairs == [i \in 1..Len(ts2) |-> <<ts1[i], ts2[i]>>]
        IN  IF Len(ts1) < Len(ts2)
            THEN res.err = Err("Expected tuple of length", "", Len(ts2), Len(ts1))
            ELSE /\ IsOk(res.err) <=> IsOk(UnifyEach(St0(pre), Ctx, pairs, 1).err)
                 /\ (Closed(pre, op.t1) /\ Closed(pre, op.t2)) =>
                       (IsOk(res.err) <=>
                           \A i \in 1..Len(ts2) : IsOk(Probe(ts1[i], ts2[i]).err))
                 /\ \A i \in (Len(ts2) + 1)..Len(ts1) :
                       ts1[i] \notin ReachSet(pre, Range(SubSeq(ts1, 1, Len(ts2)))
                                                   \cup Range(ts2))
                           => \A c \in Range(res.calls) : c[1] # ts1[i] /\ c[2] # ts1[i]

\* unify has accepted a tuple with more elements than the tuple it was
\* unified with, which is not empty.
C10_Witness ==
    /\ UnifyOfTuples
    /\ IsOk(res.err)
    /\ Len(pre[Resolve(pre, op.t2)].types) >= 1
    /\ Len(pre[Resolve(pre, op.t1)].types) > Len(pre[Resolve(pre, op.t2)].types)

\* The tuple node n holds a rest element.
HasRest(ar, n) == \E i \in 1..Len(n.types) : ar[n.types[i]].kind = "Rest"

\* C11: unify(t1, t2) on two tuple types that each hold a rest element
\* returns the error "Can't unify two rest elements", wherever the two rest
\* elements stand and whatever the lengths of the two tuples.
C11_TwoRestElements ==
    (/\ UnifyOf("Constructor", "Constructor")
     /\ IsCon(pre[Resolve(pre, op.t1)], "@@tuple")
     /\ IsCon(pre[Resolve(pre, op.t2)], "@@tuple")
     /\ HasRest(pre, pre[Resolve(pre, op.t1)])
     /\ HasRest(pre, pre[Resolve(pre, op.t2)])) =>
        res.err.tag = "Can't unify two rest elements"

\* The callee of the last operation, a unify_call: t2 pruned.
Callee == PruneIdx(pre, op.t2)

\* The last operation was unify_call on a callee that is the constructor name,
\* the callee and the arguments without variables.
CallOf(name) ==
    /\ op.name = "unify_call"
    /\ IsCon(pre[Callee], name)
    /\ Closed(pre, op.t2)
    /\ \A i \in 1..Len(op.args) : Closed(pre, op.args[i])

\* unify_call(args, m) on the arena before the last operation.
CallProbe(args, m) == UnifyCall(St0(pre), Ctx, args, m)

\* The number of calls of unify that unify_call(args, m) makes for the first
\* n members m of members, each on its own.
RECURSIVE CallsUpTo(_, _, _)
CallsUpTo(args, members, n) ==
    IF n = 0 THEN 0
    ELSE CallsUpTo(args, members, n - 1) + Len(CallProbe(args, members[n]).st.calls)

\* C12: unify_call on an intersection callee (callee and arguments without
\* variables) tries the members left to right and returns the return type of
\* the first member that accepts the arguments, without trying a later
\* member; when no member accepts them it returns the error 'no valid
\* overload for args'.
C12_FirstOverloadWins ==
    CallOf("@@intersection") =>
        LET members == pre[Callee].types
            accepts == {i \in 1..Len(members) :
                            IsOk(CallProbe(op.args, members[i]).st.err)}
        IN  IF accepts = {}
            THEN res.err = Err("no valid overload for args", "", 0, 0)
            ELSE /\ IsOk(res.err)
                 /\ res.ret = CallProbe(op.args, members[Least(accepts)]).ret
                 /\ Len(res.calls) = CallsUpTo(op.args, members, Least(accepts))

\* The members of the type t of the arena ar: the members of a union, t itself
\* otherwise.
MembersOf(ar, t) == IF IsCon(ar[t], "@@union") THEN ar[t].types ELSE <<t>>

\* C13: unify_call on a union callee (callee and arguments without variables)
\* succeeds exactly when every member of the union accepts the call, and then
\* returns the union of the members' return types in which no return type
\* appears more than once: structurally equal return types are merged.
C13_UnionCallee ==
    CallOf("@@union") =>
        LET members == pre[Callee].types
            rets == MembersOf(arena, res.ret)
        IN  /\ IsOk(res.err) <=>
                  \A i \in 1..Len(members) : IsOk(CallProbe(op.args, members[i]).st.err)
            /\ IsOk(res.err) =>
                  /\ \A i \in 1..Len(members) :
                        \E j \in 1..Len(rets) :
                            rets[j] = CallProbe(op.args, members[i]).ret
                  /\ \A j \in 1..Len(rets) :
                        \E i \in 1..Len(members) :
                            rets[j] = CallProbe(op.args, members[i]).ret
                  /\ \A j, k \in 1..Len(rets) :
                        j # k => ~SameShape(arena, rets[j], rets[k])

\* C14: unify_call on a function callee fails with 'too few arguments to
\* function' exactly when fewer arguments are supplied than the callee has
\* required (non-optional) parameters; with enough arguments it unifies each
\* argument with the parameter at the same position, ignores the surplus
\* arguments, and returns the pruned return type of the callee.
C14_TooFewArguments ==
    (/\ op.name = "unify_call"
     /\ pre[Callee].kind = "Function") =>
        LET f == pre[Callee]
            n == Min(Len(op.args), Len(f.types))
        IN  /\ res.err.tag = "too few arguments to function"
                  <=> Len(op.args) < Required(f)
            /\ Len(op.args) >= Required(f) =>
                  /\ \A i \in 1..n : <<op.args[i], f.types[i]>> \in Range(res.calls)
                  /\ IsOk(res.err) => res.ret = PruneIdx(arena, f.ret)

\* C15: unify_call returns a 'not callable' error value, never a success and
\* never a panic, for every callee whose pruned type is not a variable, a
\* function, a union or an intersection.
C15_NotCallable ==
    (/\ op.name = "unify_call"
     /\ pre[Callee].kind \notin {"Variable", "Function"}
     /\ ~IsCon(pre[Callee], "@@union")
     /\ ~IsCon(pre[Callee], "@@intersection")) =>
        res.err.tag \in {"tuple is not callable", "literal is not callable",
                         "object is not callable", "rest is not callable"}

\* The members of the intersection node n that are type variables, by their
\* position.
VarMembers(ar, n) == {i \in 1..Len(n.types) : IsVar(ar[n.types[i]])}

\* The last operation was unify on an object type and an intersection, in
\* either order, and more than one member of the intersection is a variable.
UnifyManyVars ==
    /\ \/ UnifyOf("Object", "Constructor")
       \/ UnifyOf("Constructor", "Object")
    /\ LET a == pre[Resolve(pre, op.t1)]
           b == pre[Resolve(pre, op.t2)]
           inter == IF a.kind = "Object" THEN b ELSE a
       IN  /\ IsCon(inter, "@@intersection")
           /\ Cardinality(VarMembers(pre, inter)) > 1

\* C19: unify on an object type and an intersection (in either order) more
\* than one of whose members is a type variable returns the error 'Inference
\* is undecidable' and binds no variable: no set_instance is made and every
\* variable of the arena is as it was.
C19_Undecidable ==
    UnifyManyVars =>
        /\ res.err = Err("Inference is undecidable", "", 0, 0)
        /\ res.binds = <<>>
        /\ \A v \in 1..Len(pre) : IsVar(pre[v]) => arena[v] = pre[v]

\* unify has refused an object and an intersection with two variables that
\* were both uninstantiated, and has refused it with the intersection first.
C19_Witness ==
    /\ UnifyManyVars
    /\ res.err.tag = "Inference is undecidable"
    /\ pre[Resolve(pre, op.t1)].kind = "Constructor"
    /\ \E i, j \in VarMembers(pre, pre[Resolve(pre, op.t1)]) :
          /\ i # j
          /\ pre[Resolve(pre, op.t1)].types[i] \in Unbound(pre)
          /\ pre[Resolve(pre, op.t1)].types[j] \in Unbound(pre)
          /\ pre[Resolve(pre, op.t1)].types[i] # pre[Resolve(pre, op.t1)].types[j]

\* The members of the type t of the constraint solver: the members of a
\* union, t itself otherwise.
UnionMembers(ar, t) == IF ar[t].kind = "Union" THEN ar[t].types ELSE <<t>>

\* The types that are not unions found in t, however deep.
RECURSIVE Leaves(_, _)
Leaves(ar, t) ==
    IF ar[t].kind = "Union"
    THEN UNION {Leaves(ar, m) : m \in Range(ar[t].types)}
    ELSE {t}

\* The literal t is subsumed: its primitive is among the types of the set S.
Subsumed(ar, S, t) ==
    /\ ar[t].kind = "Literal"
    /\ \E p \in S : ar[p].kind = "Prim" /\ ar[p].name = LitPrim(ar[t].lit)

\* C20: union_types(t1, t2) returns a type with no nested union and no two
\* equal members: its members are the members of t1 and t2, flattened however
\* deep they are nested, without duplicates and without the literals whose
\* primitive (number, string, boolean, null, undefined) is also a member; a
\* single member is returned itself, not as a union of one.
C20_UnionTypes ==
    op.name = "union_types" =>
        LET ms == UnionMembers(arena, res.ret)
            given == Leaves(pre, op.t1) \cup Leaves(pre, op.t2)
        IN  /\ \A i \in 1..Len(ms) : arena[ms[i]].kind # "Union"
            /\ \A i, j \in 1..Len(ms) : i # j => ~TypeEq(arena, ms[i], ms[j])
            /\ Range(ms) \subseteq given
            /\ \A t \in given :
                  ~Subsumed(pre, given, t) <=>
                      \E i \in 1..Len(ms) : TypeEq(arena, ms[i], t)
            /\ arena[res.ret].kind = "Union" =>
                  /\ Len(ms) > 1
                  /\ res.ret = Len(pre) + 1
            /\ \A t \in 1..Len(pre) : arena[t] = pre[t]

\* union_types has flattened a union nested in a union, dropped a literal for
\* its primitive and a duplicate, and returned a union.
C20_Witness ==
    /\ op.name = "union_types"
    /\ pre[op.t1].kind = "Union"
    /\ \E m \in Range(pre[op.t1].types) : pre[m].kind = "Union"
    /\ \E t \in Leaves(pre, op.t1) : Subsumed(pre, Leaves(pre, op.t2), t)
    /\ \E t \in Leaves(pre, op.t1), u \in Leaves(pre, op.t2) :
          t # u /\ TypeEq(pre, t, u)
    /\ arena[res.ret].kind = "Union"

----------------------------------------------------------------------------
(* The throws of inferred functions.                                       *)

\* The members of the effect t, in order: none for no throws, the members
\* of a union, or t itself.
ThrowsMembers(ar, t) ==
    IF t = None THEN <<>>
    ELSE MembersOf(ar, PruneIdx(ar, t))

\* The values of the effect t, all of its members being string literals.
ThrowsValues(ar, t) ==
    {ar[PruneIdx(ar, m)].name : m \in Range(ThrowsMembers(ar, t))}

\* The effects, as values, that the source of a function says it raises:
\* what the expression e, or the statements stmts[i..], throw or call in the
\* scope they are in.  known gives the effects of the functions in scope; a
\* let of a lambda adds the lambda to it, the body of a lambda raises
\* nothing where it is defined, and a try with a catch clause raises what
\* its catch block raises.
RECURSIVE RaisedBy(_, _)
RECURSIVE RaisedIn(_, _, _)
RaisedBy(e, known) ==
    CASE e.e = "call" -> RaisedIn(e.subs, 1, known) \cup known[e.name]
      [] e.e = "throw" -> {e.subs[1].name}
      [] e.e = "let" -> RaisedBy(e.subs[1], known)
      [] e.e = "try" -> IF e.name = "catch"
                        THEN RaisedIn(e.handler, 1, known)
                        ELSE RaisedIn(e.subs, 1, known)
      [] OTHER -> {}

RaisedIn(stmts, i, known) ==
    IF i > Len(stmts) THEN {}
    ELSE LET e == stmts[i]
             bound == IF e.e = "let" /\ e.subs[1].e = "lambda"
                      THEN (e.name :> RaisedIn(e.subs[1].subs, 1, known)) @@ known
                      ELSE known
         IN  RaisedBy(e, known) \cup RaisedIn(stmts, i + 1, bound)

\* The effects of the declared functions, by name.
DeclaredRaises ==
    [n \in DOMAIN ThrowsEnv |-> ThrowsValues(ThrowsArena, ThrowsFx[ThrowsEnv[n]])]

\* The effects the source of the lambda Lambdas[p] says it raises.
Raises(p) == RaisedIn(Lambdas[p].subs, 1, DeclaredRaises)

\* A try is a statement of the body of the lambda Lambdas[p].
DirectTry(p) == \E i \in 1..Len(Lambdas[p].subs) : Lambdas[p].subs[i].e = "try"

\* The last operation inferred a lambda, without an error.
Inferred == op.name = "infer_lambda" /\ IsOk(res.err)

\* C16: the throws of an inferred function that declares none, and has no
\* try in its body, is the union of the effects of the calls and throws of
\* its body: every effect once, however many calls and throws raise it and
\* at whatever index each holds it, no union among the members, and no
\* throws at all when the body raises nothing.
C16_InferredThrows ==
    (Inferred /\ ~DirectTry(op.t1)) =>
        LET th == res.infer.fx[res.ret]
            ms == ThrowsMembers(arena, th)
        IN  /\ ThrowsValues(arena, th) = Raises(op.t1)
            /\ \A i \in 1..Len(ms) : arena[PruneIdx(arena, ms[i])].kind = "Literal"
            /\ \A i, j \in 1..Len(ms) :
                  i # j => arena[PruneIdx(arena, ms[i])].name
                               # arena[PruneIdx(arena, ms[j])].name
            /\ Raises(op.t1) = {} <=> th = None

\* A function whose body raised one effect twice, held at two indices, has
\* been inferred: its throws is that effect, not a union.
C16_Witness ==
    /\ Inferred /\ ~DirectTry(op.t1)
    /\ LET l == res.infer.lams[Len(res.infer.lams)]
       IN  /\ l.f = res.ret
           /\ \E i, j \in 1..Len(l.raised) :
                 /\ l.raised[i] # l.raised[j]
                 /\ ThrowsValues(arena, l.raised[i]) = ThrowsValues(arena, l.raised[j])
    /\ Len(ThrowsMembers(arena, res.infer.fx[res.ret])) = 1

\* C17: inferring a lambda leaves the throws accumulator of the enclosing
\* scope as it was, the effects raised in the body of the lambda are in the
\* lambda's own throws, and the throws of the inferred function holds no
\* effect that its own body does not raise: a function that only defines a
\* throwing lambda has no throws.
C17_ScopedThrows ==
    Inferred =>
        /\ \A k \in 1..Len(res.infer.lams) :
              LET l == res.infer.lams[k]
              IN  /\ l.left = l.outer
                  /\ \A i \in 1..Len(l.raised) :
                        ThrowsValues(arena, l.raised[i])
                            \subseteq ThrowsValues(arena, res.infer.fx[l.f])
        /\ ThrowsValues(arena, res.infer.fx[res.ret]) \subseteq Raises(op.t1)

\* A function that defines a throwing lambda in its body, and has no throws
\* itself, has been inferred.
C17_Witness ==
    /\ Inferred
    /\ \E k \in 1..Len(res.infer.lams) :
          /\ res.infer.lams[k].f # res.ret
          /\ res.infer.lams[k].raised # <<>>
          /\ res.infer.fx[res.infer.lams[k].f] # None
    /\ res.infer.fx[res.ret] = None

\* The types that are not unions found in the type t, however deep, but
\* never.
RECURSIVE TypeLeaves(_, _)
TypeLeaves(ar, t) ==
    LET p == PruneIdx(ar, t)
    IN  IF IsCon(ar[p], "@@union")
        THEN UNION {TypeLeaves(ar, m) : m \in Range(ar[p].types)}
        ELSE IF IsCon(ar[p], "never") THEN {} ELSE {p}

\* C18: a try with a catch clause adds to the throws accumulator of the
\* enclosing scope the effects raised in its catch block and none of those
\* raised in its try block, its type is the union of the types of the two
\* blocks, and the throws of a function with a try in its body is what the
\* catch block and the statements outside the try raise.
C18_TryCatch ==
    Inferred =>
        /\ \A k \in 1..Len(res.infer.tries) :
              LET y == res.infer.tries[k]
              IN  y.caught =>
                     /\ y.left = y.outer \o y.handler
                     /\ TypeLeaves(arena, y.t) =
                           TypeLeaves(arena, y.tbody) \cup TypeLeaves(arena, y.thandler)
        /\ DirectTry(op.t1) =>
              ThrowsValues(arena, res.infer.fx[res.ret]) = Raises(op.t1)

\* A function whose body is a try that raises an effect in its try block
\* and another in its catch block has been inferred: its throws is the
\* effect of the catch block.
C18_Witness ==
    /\ Inferred /\ DirectTry(op.t1)
    /\ \E k \in 1..Len(res.infer.tries) :
          LET y == res.infer.tries[k]
          IN  /\ y.caught
              /\ y.body # <<>>
              /\ y.handler # <<>>
              /\ ThrowsValues(arena, res.infer.fx[res.ret])
                    = UNION {ThrowsValues(arena, y.handler[i]) : i \in 1..Len(y.handler)}
              /\ \A i \in 1..Len(y.body) :
                    ThrowsValues(arena, y.body[i])
                        \cap ThrowsValues(arena, res.infer.fx[res.ret]) = {}

----------------------------------------------------------------------------
(* Invariants of the arena.                                                *)

\* The last operation was a unify or a unify_call.
Unified == op.name \in {"unify", "unify_call"}

WithInstanceOf(n, m) == [n EXCEPT !.instance = m.instance]

\* Every node of the arena ar is in the arena br as it is in ar, but for the
\* instance of a variable.
OnlyInstancesDiffer(ar, br) ==
    /\ Len(br) >= Len(ar)
    /\ \A t \in 1..Len(ar) :
          IF IsVar(ar[t]) THEN br[t] = WithInstanceOf(ar[t], br[t])
          ELSE br[t] = ar[t]

\* C23: unify and unify_call insert nodes and set the instance of variable
\* nodes, and nothing else: every node that is not a variable is after the
\* operation, and after any sequence of operations, what it was when it was
\* created, and a variable keeps its constraint.
C23_NodesImmutable ==
    /\ Unified => OnlyInstancesDiffer(pre, arena)
    /\ OnlyInstancesDiffer(Starts[scn].arena, arena)

\* The second operation of a run, a unify_call, has inserted nodes and
\* bound variables.
C23_Witness ==
    /\ op.name = "unify_call"
    /\ steps = 2
    /\ IsOk(res.err)
    /\ Len(arena) > Len(pre)
    /\ Len(pre) > Len(Starts[scn].arena)
    /\ \E i \in 1..Len(res.binds) : res.binds[i][1] <= Len(pre)

----------------------------------------------------------------------------
(* Intersections of objects.                                               *)

\* t, pruned, is an intersection in the arena ar.
IsIntersection(ar, t) == IsCon(ar[PruneIdx(ar, t)], "@@intersection")

\* The members of the intersection t.
Parts(ar, t) == ar[PruneIdx(ar, t)].types

\* t, pruned, is an object type in the arena ar.
IsObject(ar, t) == ar[PruneIdx(ar, t)].kind = "Object"

\* The last operation was unify(I, o), I an intersection of object types and
\* o an object type.
ObjectsAgainstObject ==
    /\ op.name = "unify"
    /\ IsIntersection(pre, op.t1)
    /\ \A i \in 1..Len(Parts(pre, op.t1)) : pre[Parts(pre, op.t1)[i]].kind = "Object"
    /\ IsObject(pre, op.t2)

\* unify of the object simplify_intersection makes of the members of t1 with
\* t2, on the arena before the last operation.
MergedProbe(t1, t2) ==
    LET si == SimplifyIntersection(pre, Parts(pre, t1))
    IN  Unify(St0(si.arena), Ctx, si.idx, t2)

\* C24: unify(I, o), I an intersection of object types and o an object type,
\* terminates (it does not exhaust the stack), and it succeeds exactly when
\* the object merged from the members of I unifies with o.
C24_IntersectionWithObject ==
    ObjectsAgainstObject =>
        /\ ~IsPanic(res.err)
        /\ IsOk(res.err) <=> IsOk(MergedProbe(op.t1, op.t2).err)

\* The members of the intersection t that are object types, in order.
ObjectParts(ar, t) == SelectSeq(Parts(ar, t), LAMBDA m : ar[m].kind = "Object")

\* The members of the intersection t that are variables.
VariableParts(ar, t) == {m \in Range(Parts(ar, t)) : IsVar(ar[m])}

\* The names of the properties of the object parts of the intersection t.
PartNames(ar, t) ==
    UNION {Range(ar[ObjectParts(ar, t)[i]].keys) : i \in 1..Len(ObjectParts(ar, t))}

\* The last operation was unify(o, I), o an object type and I an
\* intersection of object types and exactly one uninstantiated variable.
ObjectAgainstOpen ==
    /\ op.name = "unify"
    /\ IsObject(pre, op.t1)
    /\ IsIntersection(pre, op.t2)
    /\ Cardinality(VariableParts(pre, op.t2)) = 1
    /\ \A m \in VariableParts(pre, op.t2) : pre[m].instance = None
    /\ \A m \in Range(Parts(pre, op.t2)) : pre[m].kind \in {"Object", "Variable"}

\* unify of the properties of o named in the object parts of t2 with the
\* object merged from those parts, on the arena before the last operation.
OverlapProbe(t1, t2) ==
    LET si == SimplifyIntersection(pre, ObjectParts(pre, t2))
        o == pre[PruneIdx(pre, t1)]
    IN  Unify(St0(Append(si.arena, SubObject(o, PartNames(pre, t2)))), Ctx,
              Len(si.arena) + 1, si.idx)

\* C25: unify(o, I), I an intersection of object types and exactly one
\* uninstantiated variable v, succeeds only if the properties of o named in
\* the object parts of I unify with the object merged from those parts, and
\* then v is bound to an object type whose properties are exactly the
\* properties of o named in no object part, with the types o gives them.
C25_RestOfObject ==
    ObjectAgainstOpen =>
        LET o == pre[PruneIdx(pre, op.t1)]
            v == CHOOSE m \in VariableParts(pre, op.t2) : TRUE
            w == arena[PruneIdx(arena, v)]
        IN  /\ IsOk(res.err) => IsOk(OverlapProbe(op.t1, op.t2).err)
            /\ IsOk(res.err) =>
                  /\ arena[v].instance # None
                  /\ w.kind = "Object"
                  /\ Range(w.keys) = Range(o.keys) \ PartNames(pre, op.t2)
                  /\ Len(w.keys) = Cardinality(Range(w.keys))
                  /\ \A i \in 1..Len(w.keys) :
                        \E j \in 1..Len(o.keys) :
                            /\ o.keys[j] = w.keys[i]
                            /\ o.types[j] = w.types[i]
                            /\ o.opts[j] = w.opts[i]

\* The variable of the intersection occurs nowhere else in the operands: not
\* in the object and not in the object parts of the intersection.
VariableApart ==
    \A v \in VariableParts(pre, op.t2) :
        v \notin ReachSet(pre, {PruneIdx(pre, op.t1)} \cup Range(ObjectParts(pre, op.t2)))

\* C25, amended: the same, when v occurs neither in o nor in an object part
\* of I.
C25_RestOfObjectApart == (ObjectAgainstOpen /\ VariableApart) => C25_RestOfObject

\* unify has bound the variable of {a: number} & V to the properties that
\* the object has beside a, and there are some.
C25_Witness ==
    /\ ObjectAgainstOpen
    /\ VariableApart
    /\ IsOk(res.err)
    /\ ObjectParts(pre, op.t2) # <<>>
    /\ LET v == CHOOSE m \in VariableParts(pre, op.t2) : TRUE
       IN  /\ arena[PruneIdx(arena, v)].kind = "Object"
           /\ arena[PruneIdx(arena, v)].keys # <<>>
           /\ arena[PruneIdx(arena, v)].keys # pre[PruneIdx(pre, op.t1)].keys

----------------------------------------------------------------------------
(* simplify_intersection: the merged object.                               *)

Simplified == op.name = "simplify_intersection"

\* The object parts and the other parts of the call, in the arena before it.
ObjectsOf(ar, parts) ==
    {parts[i] : i \in {j \in 1..Len(parts) : ar[parts[j]].kind = "Object"}}
OthersOf(ar, parts) == SelectSeq(parts, LAMBDA t : ar[t].kind # "Object")
NamesOf(ar, objs) == UNION {Range(ar[o].keys) : o \in objs}
TypesOf(ar, objs, name) ==
    UNION {{ar[o].types[j] : j \in {k \in 1..Len(ar[o].keys) : ar[o].keys[k] = name}} :
           o \in objs}

\* The names of the sequence ks are all different and in the order of KeyOrder.
OrderedByName(ks) ==
    \A i, j \in 1..Len(ks) :
        i < j => \E a, b \in 1..Len(KeyOrder) :
                    a < b /\ KeyOrder[a] = ks[i] /\ KeyOrder[b] = ks[j]

\* In the arena ar the type t stands for the types ts of one name: the only
\* one of them, or an intersection with exactly them as members, inserted by
\* the call (it is not in the arena before, of length n).
StandsFor(ar, n, t, ts) ==
    IF Cardinality(ts) = 1 THEN ts = {t}
    ELSE /\ t > n
         /\ IsCon(ar[t], "@@intersection")
         /\ Range(ar[t].types) = ts
         /\ Len(ar[t].types) = Cardinality(ts)

\* The node m of ar is the object merged from the objects objs of the arena
\* before the call, of length n.
MergedObject(ar, n, m, objs) ==
    /\ ar[m].kind = "Object"
    /\ Range(ar[m].keys) = NamesOf(ar, objs)
    /\ OrderedByName(ar[m].keys)
    /\ \A i \in 1..Len(ar[m].keys) :
           StandsFor(ar, n, ar[m].types[i], TypesOf(ar, objs, ar[m].keys[i]))

\* The type t of ar is the merged object of objs, beside the other parts.
MergedBeside(ar, n, t, objs, others) ==
    IF others = <<>> THEN MergedObject(ar, n, t, objs)
    ELSE /\ IsCon(ar[t], "@@intersection")
         /\ Len(ar[t].types) = Len(others) + 1
         /\ SubSeq(ar[t].types, 1, Len(others)) = others
         /\ MergedObject(ar, n, ar[t].types[Len(others) + 1], objs)

\* What a result is made of: the names of the merged object, the types each
\* of them stands for, and the other parts.
MadeOf(ar, n, t) ==
    LET m == IF IsCon(ar[t], "@@intersection") THEN ar[t].types[Len(ar[t].types)] ELSE t
    IN  IF ar[m].kind # "Object" THEN <<ar[t].kind>>
        ELSE <<ar[m].keys,
               [i \in 1..Len(ar[m].keys) |->
                   IF ar[m].types[i] > n THEN Range(ar[ar[m].types[i]].types)
                   ELSE {ar[m].types[i]}],
               IF m = t THEN <<>> ELSE SubSeq(ar[t].types, 1, Len(ar[t].types) - 1)>>

\* The same objects given in another order, or named by the hash map in
\* another order, make the same result.
SameInAnyOrder ==
    \A q \in Starts[scn].partss, o \in 1..Len(HashOrders) :
        (/\ ObjectsOf(pre, q) = ObjectsOf(pre, op.args)
         /\ OthersOf(pre, q) = OthersOf(pre, op.args))
        => LET r == SimplifyIntersectionIn(pre, q, HashOrders[o])
           IN  MadeOf(r.arena, Len(pre), r.idx) = MadeOf(arena, Len(pre), res.ret)

HasObjectPart == Simplified /\ ObjectsOf(pre, op.args) # {}

\* C26: simplify_intersection(parts), for object parts that hold only
\* properties, returns an object with exactly one property per distinct name
\* found in the parts, ordered by name: a name whose properties all have the
\* same type keeps it, a name with several types gets the intersection of
\* them; the other parts are kept verbatim beside the merged object, and the
\* result does not depend on the order in which the parts are given.
C26_MergedObject ==
    HasObjectPart =>
        /\ MergedBeside(arena, Len(pre), res.ret,
                        ObjectsOf(pre, op.args), OthersOf(pre, op.args))
        /\ SameInAnyOrder

\* The same of the calls whose object parts hold at least one property.
C26_MergedObjectNamed ==
    (HasObjectPart /\ NamesOf(pre, ObjectsOf(pre, op.args)) # {}) 
        => /\ MergedBeside(arena, Len(pre), res.ret,
                           ObjectsOf(pre, op.args), OthersOf(pre, op.args))
           /\ SameInAnyOrder

----------------------------------------------------------------------------
(* A failed unification and the bindings made before it failed.            *)

\* The operation was a unify that returned an error (and did not panic).
UnifyFailed == op.name = "unify" /\ ~IsOk(res.err) /\ ~IsPanic(res.err)

\* The variables without instance in the arena ar.
Uninstantiated(ar) ==
    {t \in 1..Len(ar) : IsVar(ar[t]) /\ ar[t].instance = None}

\* C27: a failed unification leaves no bindings: whenever unify(a, b)
\* returns an error, every variable that was uninstantiated before the call
\* is still uninstantiated after it, including the variables bound while
\* trying a union member, an earlier tuple element, an earlier function
\* parameter or an earlier object property.
C27_FailureLeavesNoBindings ==
    UnifyFailed => Uninstantiated(pre) \subseteq Uninstantiated(arena)

----------------------------------------------------------------------------
(* Overload resolution and the attempts that failed.                       *)

\* The operation was a unify_call whose callee is an intersection.
CalledIntersection ==
    op.name = "unify_call" /\ IsIntersection(pre, op.t2)

\* The member t, tried alone on the arena before the call.
Alone(t) == UnifyCall(St0(pre), Ctx, op.args, t)

\* The members that accept the arguments when tried alone.
Accepting ==
    {i \in 1..Len(Parts(pre, op.t2)) : IsOk(Alone(Parts(pre, op.t2)[i]).st.err)}

FirstAccepting == CHOOSE i \in Accepting : \A j \in Accepting : i <= j

\* The call returned what the member at i returns when tried alone: the same
\* type of the arena before the call, or a type made by the call like it.
ReturnsAsAlone(i) ==
    LET r == Alone(Parts(pre, op.t2)[i])
    IN  /\ IsOk(res.err)
        /\ IF r.ret <= Len(pre) THEN res.ret = r.ret
           ELSE res.ret > Len(pre) /\ arena[res.ret].kind = r.st.arena[r.ret].kind

\* C28: overload resolution does not depend on failed attempts: if at least
\* one member of an intersection callee, tried alone on the arena before the
\* call, accepts the arguments, then unify_call on the intersection succeeds
\* and returns the return type of the first such member, also when an
\* argument is an uninstantiated variable that an earlier, rejected overload
\* tried to bind.
C28_OverloadsIndependent ==
    (CalledIntersection /\ Accepting # {}) => ReturnsAsAlone(FirstAccepting)

\* The same of the calls in which no member stops the program.
C28_OverloadsIndependentNoPanic ==
    (CalledIntersection /\ Accepting # {} /\ ~IsPanic(res.err))
        => ReturnsAsAlone(FirstAccepting)

\* The same of the calls none of whose arguments is a variable.
C28_OverloadsIndependentNoVariable ==
    (/\ CalledIntersection /\ Accepting # {} /\ ~IsPanic(res.err)
     /\ \A k \in 1..Len(op.args) : ~IsVar(pre[PruneIdx(pre, op.args[k])]))
        => ReturnsAsAlone(FirstAccepting)

----------------------------------------------------------------------------
(* instantiate_scheme and the variables of the scheme.                     *)

Instantiated == op.name = "instantiate_scheme"

\* The components of the type t of the arena ar, pruned.
ComponentsOf(ar, t) == Children(ar[PruneIdx(ar, t)])

\* The places i and j of the scheme body hold the same variable without
\* instance.
SameVariableAt(i, j) ==
    LET a == PruneIdx(pre, ComponentsOf(pre, op.t1)[i])
        b == PruneIdx(pre, ComponentsOf(pre, op.t1)[j])
    IN  a = b /\ IsVar(pre[a])

\* C29: instantiate_scheme preserves the sharing of variables: when the same
\* uninstantiated variable occurs at several places of the scheme body (as
\* a parameter and as the return of a function), all of its occurrences are
\* mapped to one and the same arena index in the result.
C29_SharingPreserved ==
    (Instantiated /\ ~IsVar(pre[PruneIdx(pre, op.t1)]))
        => \A i, j \in 1..Len(ComponentsOf(pre, op.t1)) :
              SameVariableAt(i, j)
                  => ComponentsOf(arena, res.ret)[i] = ComponentsOf(arena, res.ret)[j]

\* The same of the type parameters: the places of the body that hold a
\* constructor named in the mapping all hold, in the result, the type the
\* mapping gives it.
C29_ParametersShared ==
    (Instantiated /\ ~IsVar(pre[PruneIdx(pre, op.t1)]))
        => \A i \in 1..Len(ComponentsOf(pre, op.t1)) :
              LET n == pre[PruneIdx(pre, ComponentsOf(pre, op.t1)[i])]
              IN  (n.kind = "Constructor" /\ n.name \in DOMAIN SchemeMappings[op.t2])
                      => ComponentsOf(arena, res.ret)[i] = SchemeMappings[op.t2][n.name]

----------------------------------------------------------------------------
(* The code generated for a match: the order of the arms.                  *)

Built == op.name = "build_match"

\* The expression e is none, or holds for the value v.
HoldsFor(e, v) == e.op = "none" \/ Eval(e, v) = "true"

\* The pattern condition and the guard of the arm hold for the value v.
ArmHolds(arm, v) ==
    HoldsFor(BuildCondForPat(arm.pattern), v) /\ HoldsFor(arm.guard, v)

\* A catch-all: an irrefutable pattern without guard.
IsCatchall(arm) == ~IsRefutable(arm.pattern) /\ arm.guard.op = "none"

\* The arms of the match that hold for the value of the run.
HoldingArms ==
    {i \in 1..Len(Matches[op.t1]) : ArmHolds(Matches[op.t1][i], Values[op.t2])}

\* The first of them, 0 when there is none.
FirstHolding ==
    IF HoldingArms = {} THEN 0
    ELSE CHOOSE i \in HoldingArms : \A j \in HoldingArms : i <= j

\* An arm comes after a catch-all.
ArmAfterCatchall ==
    \E i, j \in 1..Len(Matches[op.t1]) : i < j /\ IsCatchall(Matches[op.t1][i])

\* The arm whose body was executed is the first arm that holds; no body
\* was executed when no arm holds.
FirstHoldingExecuted ==
    IF FirstHolding = 0 THEN res.code.block \in {0, -1}
    ELSE res.code.block = FirstHolding

\* C21: in the code generated for a match the arm conditions are tested in
\* source order, so that the body executed is that of the first arm whose
\* pattern condition and guard hold; a catch-all arm is accepted only as the
\* last arm: building a match that has an arm after a catch-all fails with
\* 'Catchall must appear last in match'.
C21_ArmsInSourceOrder ==
    Built =>
        /\ (res.code.panic = "Catchall must appear last in match") <=> ArmAfterCatchall
        /\ ~ArmAfterCatchall /\ Matches[op.t1] # <<>>
               => res.code.panic = "" /\ FirstHoldingExecuted

\* The same of the runs in which no condition throws.
C21_ArmsInSourceOrderNoThrow ==
    (Built /\ res.code.block # -1) =>
        /\ (res.code.panic = "Catchall must appear last in match") <=> ArmAfterCatchall
        /\ ~ArmAfterCatchall /\ Matches[op.t1] # <<>>
               => res.code.panic = "" /\ FirstHoldingExecuted

----------------------------------------------------------------------------
(* The condition generated for a pattern with several checks.              *)

\* Every check of the pattern pat holds for the value v.
RECURSIVE ChecksHold(_, _)
ChecksHold(pat, v) ==
    CASE pat.kind = "Lit" -> v.type = TypeofLit(pat.lit) /\ v.lit = pat.name
      [] pat.kind = "Is" ->
            IF pat.name \in {"string", "number", "boolean"} THEN v.type = pat.name
            ELSE v.type = "object" /\ v.class = pat.name
      [] pat.kind = "Object" ->
            \A k \in 1..Len(pat.subs) :
                ChecksHold(pat.subs[k], Member(v, ObjProp(pat.keys[k])))
      [] pat.kind = "Array" ->
            \A k \in 1..Len(pat.subs) :
                ChecksHold(pat.subs[k], Member(v, ArrayIndex(k - 1)))
      [] OTHER -> TRUE

\* The arms of the match, without guard, whose pattern has several checks.
SeveralChecks ==
    {i \in 1..Len(res.code.built_arms) :
        /\ Matches[op.t1][i].guard.op = "none"
        /\ Len(GetCondsForPat(Matches[op.t1][i].pattern, <<>>)) >= 2}

\* C30: the run-time condition generated for a refutable pattern with
\* several refutable sub-patterns holds for a value exactly when every one
\* of its sub-pattern checks holds for that value; a value that satisfies
\* only some of the checks does not select the arm.
C30_EveryCheckHolds ==
    Built =>
        \A i \in SeveralChecks :
            /\ (Eval(res.code.built_arms[i].cond, Values[op.t2]) = "true")
                   <=> ChecksHold(Matches[op.t1][i].pattern, Values[op.t2])
            /\ res.code.block = i => ChecksHold(Matches[op.t1][i].pattern, Values[op.t2])

\* The same of the patterns with one check.
C30_TheCheckHolds ==
    Built =>
        \A i \in 1..Len(res.code.built_arms) :
            (/\ Matches[op.t1][i].guard.op = "none"
             /\ Len(GetCondsForPat(Matches[op.t1][i].pattern, <<>>)) = 1)
            => ((Eval(res.code.built_arms[i].cond, Values[op.t2]) = "true")
                   <=> ChecksHold(Matches[op.t1][i].pattern, Values[op.t2]))

====
